---------------------------- MODULE Spec2Model ----------------------------
(***************************************************************************)
(* lyrecho: the two-tier lyric cache (internal/cache/cache.go) and the     *)
(* lyric resolution loop (package lyrics, Fetch).                          *)
(*                                                                         *)
(* Strings are sequences of one-character strings, so that trimming,       *)
(* case mapping and concatenation are computed as the code computes them.  *)
(***************************************************************************)
EXTENDS Integers, Sequences, FiniteSets, TLC

VARIABLES
    now,        \* time.Now().Unix()
    ticks,      \* number of clock advances so far (bounds the clock)
    basePath,   \* DiskCache.basePath: "" in degraded mode
    memCache,   \* DiskCache.memCache: key -> *LyricEntry
    dir,        \* the cache directory: path -> content of the file (written chunks)
    pc,         \* per goroutine: position inside the running operation
    lv,         \* per goroutine: the locals of the running operation
    ret,        \* per goroutine: <<the Set its last Get directly followed, if any; what
                \* its last completed operation returned>>
    track,      \* Fetch: the TrackParams of the running resolution
    strategies, \* Fetch: uniqueStrategies
    idx,        \* Fetch: strategyIdx
    rawQuery,   \* Fetch: parsedURL.RawQuery
    requests,   \* the requests the remote service received in this resolution
    lastErr,    \* Fetch: lastErr
    payload,    \* Fetch: the payload doFetchRequest returned and Fetch accepted
    lastReply,  \* the answer to the most recent request, with the request's number
    held,       \* the unexpired entry the cache held for the track when Fetch was called
    ctx,        \* Fetch: parentCtx, with where Fetch was and what it had sent at the cancel
    fetches,    \* number of resolutions started
    fres,       \* what the last Fetch returned
    mono,       \* time.Now() as the player Service reads it, in half seconds
    state,      \* Service.state: the State the Service keeps
    eventChan,  \* Service.eventChan: the queued events, oldest first
    stopChan,   \* Service.stopChan: 0 is nil, else the number of the Start that made it
    closed,     \* the stop channels that are closed
    stopOnce,   \* Service.stopOnce has run
    loops,      \* the signalLoop goroutines: running or not, and the stop channel
                \* their select waits on
    handed,     \* what the last read accessor handed to its caller
    last,       \* the last operation on the Service and its inputs
    emitted,    \* the events the last operation passed to emitEvent
    observed,   \* the position last read from the player and when it was read
    stopped,    \* a Stop call has returned since the last Start
    polls,      \* the Poll calls so far, where their number is bounded
    model,      \* the ui.Model: the track it displays, whether it has lyric lines,
                \* its sync offset in tenths of a second, whether a lyrics
                \* command is out, and the message it handled last
    display,    \* Model.display and Model.positionSecs: the lyric lines, the
                \* current and the previous line index, the position
    cmds,       \* the lyrics commands that are out, each with the track it resolves
    found,      \* the last call of FindCurrentLineIndex: its arguments and result
    mu,         \* Service.mu: "free", or the context that holds it locked
    ctl,        \* where Poll and the signal handler are when they run step by
                \* step, and their local variables
    replaced    \* the tracks stored in Service.state so far, in the order stored

cacheVars == <<now, ticks, basePath, memCache, dir, pc, lv, ret>>
fetchVars == <<track, strategies, idx, rawQuery, requests, lastErr, payload, lastReply,
               held, ctx, fetches, fres>>
playerVars == <<mono, state, eventChan, stopChan, closed, stopOnce, loops, handed, last,
                emitted, observed, stopped, polls>>
uiVars == <<model, display, cmds, found>>
lockVars == <<mu, ctl, replaced>>

---------------------------------------------------------------------------
(* Bounds and program constants *)

MaxTicks == 2
MaxFetches == 2

cacheVersion == 1
defaultTTLDays == 30
TTL == defaultTTLDays * 24 * 60 * 60

Procs == {1, 2}

---------------------------------------------------------------------------
(* Strings *)

ToLowerChar(c) ==
    CASE c = "A" -> "a"
      [] c = "B" -> "b"
      [] c = "X" -> "x"
      [] OTHER -> c

ToUpperChar(c) ==
    CASE c = "a" -> "A"
      [] c = "b" -> "B"
      [] c = "x" -> "X"
      [] OTHER -> c

ToLower(s) == [i \in 1..Len(s) |-> ToLowerChar(s[i])]
ToUpper(s) == [i \in 1..Len(s) |-> ToUpperChar(s[i])]

---------------------------------------------------------------------------
(* LyricEntry and its gob encoding *)

Fields == {"Version", "TrackName", "ArtistName", "AlbumName", "Duration",
           "Instrumental", "PlainLyrics", "SyncedLyrics", "SyncOffset",
           "CreatedAt", "ExpiresAt"}

PayloadFields == Fields \ {"Version", "CreatedAt", "ExpiresAt"}

Nil == [isNil |-> TRUE]

\* the zero value of each field of LyricEntry
ZeroOf(f) ==
    CASE f \in {"TrackName", "ArtistName", "AlbumName", "PlainLyrics", "SyncedLyrics"} -> ""
      [] f = "Instrumental" -> FALSE
      [] OTHER -> 0

\* &cache.LyricEntry{...} built from a payload: the other fields are zero
NewEntry(p) == [f \in Fields |-> IF f \in PayloadFields THEN p[f] ELSE ZeroOf(f)]

PayloadOf(e) == [f \in PayloadFields |-> e[f]]

\* gob omits the fields that hold their zero value
GobValue(e) == [f \in {g \in Fields : e[g] # ZeroOf(g)} |-> e[f]]

TypeChunk == [tag |-> "type"]
ValueChunk(e) == [tag |-> "value", v |-> GobValue(e)]
Hole == [tag |-> "hole"]

\* Encoder.Encode issues two writes: the type descriptor, then the value
GobEncode(e) == <<TypeChunk, ValueChunk(e)>>

\* Decoder.Decode succeeds iff a type descriptor and a value message follow
GobDecodable(c) == Len(c) >= 2 /\ c[1].tag = "type" /\ c[2].tag = "value"

\* decoding into a fresh struct: absent fields keep their zero value
GobDecode(c) == [f \in Fields |-> IF f \in DOMAIN c[2].v THEN c[2].v[f] ELSE ZeroOf(f)]

---------------------------------------------------------------------------
(* Cache keys and paths *)

generateKeyCased(artist, title) == artist \o <<"|">> \o title

\* sha256 is taken as injective: the key is the string that is hashed
generateKey(artist, title) == ToLower(artist) \o <<"|">> \o ToLower(title)

getFilePath(key) == <<key, ".bin">>

tmpPathInPlace(filePath) == filePath

\* writeToDisk: tmpPath := filePath + ".tmp"
tmpPathOf(filePath) == <<filePath[1], ".bin.tmp">>

ExpiredStrict(e, t) == e.ExpiresAt < t

\* entry.ExpiresAt <= time.Now().Unix()
Expired(e, t) == e.ExpiresAt <= t

StampCreated(e, t) == [e EXCEPT !.Version = cacheVersion, !.CreatedAt = t]

StampNoTTL(e, t) == [e EXCEPT !.Version = cacheVersion, !.CreatedAt = t, !.ExpiresAt = t]

\* Set: entry.Version, CreatedAt, ExpiresAt
Stamp(e, t) == [e EXCEPT !.Version = cacheVersion, !.CreatedAt = t, !.ExpiresAt = t + TTL]

---------------------------------------------------------------------------
(* The file system *)

\* an open descriptor is held as the path its file is linked at; a file that
\* lost its path can be written but never read again, so its content is dropped
NoFd == <<>>
Orphan == <<<<>>, "unlinked">>

RemovePath(d, path) == [q \in DOMAIN d \ {path} |-> d[q]]

\* unlink(2): descriptors open on the files at these paths keep an unlinked file
Unlinked(l, paths) ==
    [p \in DOMAIN l |-> IF l[p].fd \in paths THEN [l[p] EXCEPT !.fd = Orphan] ELSE l[p]]

\* rename(2): the file at `from` replaces the one at `to`, which is unlinked
RenamePath(d, from, to) ==
    [q \in (DOMAIN d \cup {to}) \ {from} |-> IF q = to THEN d[from] ELSE d[q]]

Renamed(l, from, to) ==
    [p \in DOMAIN l |->
        IF l[p].fd = to THEN [l[p] EXCEPT !.fd = Orphan]
        ELSE IF l[p].fd = from THEN [l[p] EXCEPT !.fd = to]
        ELSE l[p]]

\* write(2) at the descriptor's offset; a gap reads back as zeros
WriteAt(c, off, chunk) ==
    [i \in 1..(IF off + 1 > Len(c) THEN off + 1 ELSE Len(c)) |->
        IF i = off + 1 THEN chunk
        ELSE IF i <= Len(c) THEN c[i]
        ELSE Hole]

\* c.basePath == "": the cache has no directory and works in memory alone
DegradedNever == FALSE

Degraded == basePath = ""

Exists(path) == path \in DOMAIN dir
ContentAt(path) == dir[path]

\* what readFromDisk reports for a path, without its side effect
ReadResult(path) ==
    IF ~Exists(path) THEN "cache miss"
    ELSE IF ~GobDecodable(ContentAt(path)) THEN "cache corrupt"
    ELSE IF GobDecode(ContentAt(path)).Version # cacheVersion THEN "cache corrupt"
    ELSE "nil"

---------------------------------------------------------------------------
(* Inputs of the cache operations *)

CacheArtists == {<<>>, <<"a">>, <<"A">>}
CacheTitles == {<<>>, <<"x">>}
SharedArtist == <<"a">>
SharedTitle == <<"x">>

Payload(name, plain, synced, instrumental, offset) ==
    [TrackName |-> name, ArtistName |-> "artist", AlbumName |-> "", Duration |-> 0,
     Instrumental |-> instrumental, PlainLyrics |-> plain, SyncedLyrics |-> synced,
     SyncOffset |-> offset]

SyncedPayload == Payload("song", "", "[00:01.50]Hello", FALSE, 0)
OffsetPayload == Payload("song", "Hello", "[00:01.50]Hello", FALSE, 2)
InstrumentalPayload == Payload("tune", "", "", TRUE, 0)

CacheEntries == {Nil, NewEntry(SyncedPayload), NewEntry(OffsetPayload)}

\* the concurrent writers store different entries
WriterEntry(p) == IF p = 1 THEN NewEntry(SyncedPayload) ELSE NewEntry(OffsetPayload)

---------------------------------------------------------------------------
(* Calls and returns *)

NoLocals == [op |-> "none", artist |-> <<>>, title |-> <<>>, key |-> <<>>, entry |-> Nil,
             fd |-> NoFd, off |-> 0, met |-> FALSE, cont |-> "idle"]

NoEvent == [op |-> "none"]
NoTrack == [Artist |-> <<>>, Title |-> <<>>, Album |-> <<>>, DurationSecs |-> 0]
NoError == [is |-> {}, text |-> <<>>]
NoReply == [n |-> 0]
NoMsg == [msg |-> "none"]
NotCancelled == [done |-> FALSE, at |-> "none", n |-> 0]

\* met: the operation came upon an expired entry (in memory or on disk)
Result(op, artist, title, val, err) ==
    [op |-> op, artist |-> artist, title |-> title, val |-> val, err |-> err, met |-> FALSE]

GetResult(l, val, err) ==
    [op |-> "Get", artist |-> l.artist, title |-> l.title, val |-> val, err |-> err,
     met |-> l.met]

\* the operations that remove entries and those that read the cache
Removers == {"Delete", "Clear", "Prune"}
Readers == {"Get", "Stats", "ListAll"}

\* the operation of goroutine p returns r; control goes back to its caller; the
\* result of the operation before it is kept where the two are a write or a
\* removal directly followed by a read
ReturnFrom(l, p, cont, r) ==
    /\ pc' = [pc EXCEPT ![p] = cont]
    /\ lv' = [l EXCEPT ![p] = NoLocals]
    /\ ret' = [ret EXCEPT ![p] =
                  <<IF \/ @[2].op = "Set" /\ r.op = "Get"
                       \/ @[2].op \in Removers /\ r.op \in Readers
                    THEN @[2] ELSE NoEvent, r>>]

Return(p, cont, r) == ReturnFrom(lv, p, cont, r)

\* what is at a path of directory d: nothing, or one file content
Snapshot(d, path) == IF path \in DOMAIN d THEN <<d[path]>> ELSE <<>>

---------------------------------------------------------------------------
(* DiskCache.Get *)

\* Get up to the memory tier: argument check, lookup, expiry test
GetBegin(p, cont, artist, title) ==
    IF artist = <<>> \/ title = <<>>
    THEN /\ Return(p, cont, Result("Get", artist, title, Nil, "cache miss"))
         /\ UNCHANGED <<memCache, dir>>
    ELSE LET key == generateKey(artist, title) IN
         IF key \in DOMAIN memCache /\ ~Expired(memCache[key], now)
         THEN /\ Return(p, cont, Result("Get", artist, title, memCache[key], "nil"))
              /\ UNCHANGED <<memCache, dir>>
         ELSE /\ pc' = [pc EXCEPT ![p] =
                           IF key \in DOMAIN memCache THEN "get_evict" ELSE "get_disk"]
              /\ lv' = [lv EXCEPT ![p] = [NoLocals EXCEPT !.op = "Get", !.artist = artist,
                                              !.title = title, !.key = key, !.cont = cont,
                                              !.met = key \in DOMAIN memCache]]
              /\ UNCHANGED <<memCache, dir, ret>>

GetFrom(p, artists, titles) ==
    /\ pc[p] = "idle"
    /\ \E artist \in artists, title \in titles : GetBegin(p, "idle", artist, title)
    /\ UNCHANGED <<now, ticks, basePath>>
    /\ UNCHANGED <<fetchVars, playerVars, uiVars, lockVars>>

GetCall(p) == GetFrom(p, CacheArtists, CacheTitles)

\* a reader of the one key the concurrent writers share
GetSameKey(p) == GetFrom(p, {SharedArtist}, {SharedTitle})

\* expired in memory, remove it
GetEvict(p) ==
    /\ pc[p] = "get_evict"
    /\ memCache' = [k \in DOMAIN memCache \ {lv[p].key} |-> memCache[k]]
    /\ pc' = [pc EXCEPT ![p] = "get_disk"]
    /\ UNCHANGED <<now, ticks, basePath, dir, lv, ret>>
    /\ UNCHANGED <<fetchVars, playerVars, uiVars, lockVars>>

\* fall back to disk cache: basePath check and readFromDisk
GetDisk(p) ==
    /\ pc[p] = "get_disk"
    /\ LET path == getFilePath(lv[p].key)
           res == ReadResult(path)
           miss(l, err) ==
               ReturnFrom(l, p, lv[p].cont, GetResult(lv[p], Nil, err))
       IN
       IF Degraded
       THEN miss(lv, "cache miss") /\ UNCHANGED dir
       ELSE IF res = "nil"
       THEN /\ lv' = [lv EXCEPT ![p].entry = GobDecode(ContentAt(path))]
            /\ pc' = [pc EXCEPT ![p] = "get_expiry"]
            /\ UNCHANGED <<dir, ret>>
       ELSE IF res = "cache corrupt" /\ GobDecodable(ContentAt(path))
       THEN \* version mismatch means stale format: the file is removed
            /\ miss(Unlinked(lv, {path}), res)
            /\ dir' = RemovePath(dir, path)
       ELSE miss(lv, res) /\ UNCHANGED dir
    /\ UNCHANGED <<now, ticks, basePath, memCache>>
    /\ UNCHANGED <<fetchVars, playerVars, uiVars, lockVars>>

\* validate expiry
GetExpiry(p) ==
    /\ pc[p] = "get_expiry"
    /\ IF Expired(lv[p].entry, now)
       THEN /\ ReturnFrom(Unlinked(lv, {getFilePath(lv[p].key)}), p, lv[p].cont,
                          GetResult([lv[p] EXCEPT !.met = TRUE], Nil, "cache expired"))
            /\ dir' = RemovePath(dir, getFilePath(lv[p].key))
       ELSE /\ pc' = [pc EXCEPT ![p] = "get_promote"]
            /\ UNCHANGED <<dir, lv, ret>>
    /\ UNCHANGED <<now, ticks, basePath, memCache>>
    /\ UNCHANGED <<fetchVars, playerVars, uiVars, lockVars>>

\* populate memory cache
GetPromote(p) ==
    /\ pc[p] = "get_promote"
    /\ memCache' = [k \in DOMAIN memCache \cup {lv[p].key} |->
                       IF k = lv[p].key THEN lv[p].entry ELSE memCache[k]]
    /\ Return(p, lv[p].cont, GetResult(lv[p], lv[p].entry, "nil"))
    /\ UNCHANGED <<now, ticks, basePath, dir>>
    /\ UNCHANGED <<fetchVars, playerVars, uiVars, lockVars>>

---------------------------------------------------------------------------
(* DiskCache.Set and writeToDisk *)

\* Set up to the memory tier: argument check, stamps, memCache[key] = entry
SetBegin(p, cont, artist, title, entry) ==
    IF artist = <<>> \/ title = <<>> \/ entry = Nil
    THEN /\ Return(p, cont, Result("Set", artist, title, Nil, "invalid cache entry"))
         /\ UNCHANGED memCache
    ELSE LET key == generateKey(artist, title)
             e == Stamp(entry, now)
         IN
         /\ memCache' = [k \in DOMAIN memCache \cup {key} |->
                            IF k = key THEN e ELSE memCache[k]]
         /\ IF Degraded
            THEN Return(p, cont, Result("Set", artist, title, e, "nil"))
            ELSE /\ pc' = [pc EXCEPT ![p] = "set_create"]
                 /\ lv' = [lv EXCEPT ![p] =
                              [NoLocals EXCEPT !.op = "Set", !.artist = artist,
                                  !.title = title, !.key = key, !.entry = e, !.cont = cont]]
                 /\ UNCHANGED ret

SetFrom(p, artists, titles, entries) ==
    /\ pc[p] = "idle"
    /\ \E artist \in artists, title \in titles, entry \in entries :
           SetBegin(p, "idle", artist, title, entry)
    /\ UNCHANGED <<now, ticks, basePath, dir>>
    /\ UNCHANGED <<fetchVars, playerVars, uiVars, lockVars>>

SetCall(p) == SetFrom(p, CacheArtists, CacheTitles, CacheEntries)

\* a writer of the one key the concurrent writers share
SetSameKey(p) == SetFrom(p, {SharedArtist}, {SharedTitle}, {WriterEntry(p)})

SetDone(l, p, err) ==
    ReturnFrom(l, p, lv[p].cont, Result("Set", lv[p].artist, lv[p].title, lv[p].entry, err))

\* os.Create(tmpPath): O_CREATE|O_TRUNC
SetCreate(p) ==
    /\ pc[p] = "set_create"
    /\ LET tmp == tmpPathOf(getFilePath(lv[p].key)) IN
       /\ dir' = [q \in DOMAIN dir \cup {tmp} |-> IF q = tmp THEN <<>> ELSE dir[q]]
       /\ lv' = [lv EXCEPT ![p].fd = tmp, ![p].off = 0]
    /\ pc' = [pc EXCEPT ![p] = "set_encode"]
    /\ UNCHANGED <<now, ticks, basePath, memCache, ret>>
    /\ UNCHANGED <<fetchVars, playerVars, uiVars, lockVars>>

\* encoder.Encode(entry): one write per gob message
SetEncode(p) ==
    /\ pc[p] = "set_encode"
    /\ lv[p].off < Len(GobEncode(lv[p].entry))
    /\ dir' = IF lv[p].fd = Orphan THEN dir
              ELSE [dir EXCEPT ![lv[p].fd] =
                       WriteAt(@, lv[p].off, GobEncode(lv[p].entry)[lv[p].off + 1])]
    /\ lv' = [lv EXCEPT ![p].off = @ + 1]
    /\ pc' = [pc EXCEPT ![p] =
                 IF lv[p].off + 1 = Len(GobEncode(lv[p].entry)) THEN "set_sync" ELSE @]
    /\ UNCHANGED <<now, ticks, basePath, memCache, ret>>
    /\ UNCHANGED <<fetchVars, playerVars, uiVars, lockVars>>

\* file.Sync()
SetSync(p) ==
    /\ pc[p] = "set_sync"
    /\ pc' = [pc EXCEPT ![p] = "set_close"]
    /\ UNCHANGED <<now, ticks, basePath, memCache, dir, lv, ret>>
    /\ UNCHANGED <<fetchVars, playerVars, uiVars, lockVars>>

\* file.Close()
SetClose(p) ==
    /\ pc[p] = "set_close"
    /\ pc' = [pc EXCEPT ![p] = "set_rename"]
    /\ lv' = [lv EXCEPT ![p].fd = NoFd]
    /\ UNCHANGED <<now, ticks, basePath, memCache, dir, ret>>
    /\ UNCHANGED <<fetchVars, playerVars, uiVars, lockVars>>

\* os.Rename(tmpPath, filePath)
SetRename(p) ==
    /\ pc[p] = "set_rename"
    /\ LET path == getFilePath(lv[p].key)
           tmp == tmpPathOf(path)
       IN
       IF Exists(tmp)
       THEN /\ dir' = RenamePath(dir, tmp, path)
            /\ SetDone(Renamed(lv, tmp, path), p, "nil")
       ELSE /\ SetDone(lv, p, "no such file or directory")
            /\ UNCHANGED dir
    /\ UNCHANGED <<now, ticks, basePath, memCache>>
    /\ UNCHANGED <<fetchVars, playerVars, uiVars, lockVars>>

\* the error paths of writeToDisk: Create fails; Encode or Sync fails (Close,
\* Remove tmpPath); Close fails (Remove tmpPath)
SetFail(p) ==
    /\ pc[p] \in {"set_create", "set_encode", "set_sync", "set_close"}
    /\ LET tmp == tmpPathOf(getFilePath(lv[p].key)) IN
       IF pc[p] = "set_create"
       THEN SetDone(lv, p, "io error") /\ UNCHANGED dir
       ELSE /\ SetDone(Unlinked(lv, {tmp}), p, "io error")
            /\ dir' = RemovePath(dir, tmp)
    /\ UNCHANGED <<now, ticks, basePath, memCache>>
    /\ UNCHANGED <<fetchVars, playerVars, uiVars, lockVars>>

---------------------------------------------------------------------------
(* DiskCache.Delete, Clear, Prune *)

BinPathsNone == {}

\* the directory entries with the suffix ".bin"
BinPaths == {q \in DOMAIN dir : q[2] = ".bin"}

DeleteKeyKept(m, key) == m

\* delete(c.memCache, key)
DeleteKey(m, key) == [k \in DOMAIN m \ {key} |-> m[k]]

DeleteFrom(p, artists, titles) ==
    /\ pc[p] = "idle"
    /\ \E artist \in artists, title \in titles :
          IF artist = <<>> \/ title = <<>>
          THEN /\ Return(p, "idle", Result("Delete", artist, title, Nil, "invalid artist or title"))
               /\ UNCHANGED <<memCache, dir>>
          ELSE LET key == generateKey(artist, title)
                   gone == IF basePath = "" THEN {} ELSE {getFilePath(key)}
               IN
               /\ memCache' = DeleteKey(memCache, key)
               /\ ReturnFrom(Unlinked(lv, gone), p, "idle",
                             Result("Delete", artist, title, Nil, "nil"))
               /\ dir' = [q \in DOMAIN dir \ gone |-> dir[q]]
    /\ UNCHANGED <<now, ticks, basePath>>
    /\ UNCHANGED <<fetchVars, playerVars, uiVars, lockVars>>

DeleteCall(p) == DeleteFrom(p, CacheArtists, CacheTitles)

ClearCall(p) ==
    /\ pc[p] = "idle"
    /\ memCache' = <<>>
    /\ LET gone == IF basePath = "" THEN {} ELSE BinPaths IN
       /\ ReturnFrom(Unlinked(lv, gone), p, "idle", Result("Clear", <<>>, <<>>, Nil, "nil"))
       /\ dir' = [q \in DOMAIN dir \ gone |-> dir[q]]
    /\ UNCHANGED <<now, ticks, basePath>>
    /\ UNCHANGED <<fetchVars, playerVars, uiVars, lockVars>>

PrunableExpired ==
    {q \in BinPaths : ReadResult(q) = "nil" /\ Expired(GobDecode(ContentAt(q)), now)}

\* the .bin files Prune removes: unreadable, wrong version or expired
Prunable ==
    {q \in BinPaths : ReadResult(q) # "nil" \/ Expired(GobDecode(ContentAt(q)), now)}

PruneCall(p) ==
    /\ pc[p] = "idle"
    /\ LET gone == IF basePath = "" THEN {} ELSE Prunable IN
       /\ ReturnFrom(Unlinked(lv, gone), p, "idle",
                     Result("Prune", <<>>, <<>>, Cardinality(gone), "nil"))
       /\ dir' = [q \in DOMAIN dir \ gone |-> dir[q]]
    /\ UNCHANGED <<now, ticks, basePath, memCache>>
    /\ UNCHANGED <<fetchVars, playerVars, uiVars, lockVars>>

\* readFromDisk removes the file it finds with another version: the .bin
\* files a scan with readFromDisk removes, and the entries it reads
Stale == {q \in BinPaths : GobDecodable(ContentAt(q))
                             /\ GobDecode(ContentAt(q)).Version # cacheVersion}

Listed == [q \in {b \in BinPaths : ReadResult(b) = "nil"} |-> GobDecode(ContentAt(q))]

\* Stats: the number of .bin files and the sum of their sizes, a size being
\* the number of messages written
RECURSIVE SizeOf(_)
SizeOf(paths) ==
    IF paths = {} THEN 0
    ELSE LET q == CHOOSE x \in paths : TRUE
         IN  Len(ContentAt(q)) + SizeOf(paths \ {q})

StatsCall(p) ==
    /\ pc[p] = "idle"
    /\ LET seen == IF basePath = "" THEN {} ELSE BinPaths IN
       Return(p, "idle", Result("Stats", <<>>, <<>>, <<Cardinality(seen), SizeOf(seen)>>, "nil"))
    /\ UNCHANGED <<now, ticks, basePath, memCache, dir>>
    /\ UNCHANGED <<fetchVars, playerVars, uiVars, lockVars>>

ListAllCall(p) ==
    /\ pc[p] = "idle"
    /\ LET gone == IF basePath = "" THEN {} ELSE Stale IN
       /\ ReturnFrom(Unlinked(lv, gone), p, "idle",
                     Result("ListAll", <<>>, <<>>,
                            IF basePath = "" THEN <<>> ELSE Listed, "nil"))
       /\ dir' = [q \in DOMAIN dir \ gone |-> dir[q]]
    /\ UNCHANGED <<now, ticks, basePath, memCache>>
    /\ UNCHANGED <<fetchVars, playerVars, uiVars, lockVars>>

---------------------------------------------------------------------------
(* The environment of the cache *)

\* What becomes of a file that is damaged: it loses its value message, or it
\* holds an entry of another version of the format.
Damaged(c) ==
    {<<TypeChunk>>}
    \cup (IF GobDecodable(c)
          THEN {GobEncode([GobDecode(c) EXCEPT !.Version = cacheVersion + 1])}
          ELSE {})

\* a .bin file is damaged between two operations
Damage ==
    /\ \A p \in Procs : pc[p] = "idle"
    /\ \E q \in BinPaths : \E c \in Damaged(ContentAt(q)) :
           /\ c # ContentAt(q)
           /\ dir' = [dir EXCEPT ![q] = c]
    /\ ret' = [p \in Procs |-> <<NoEvent, [op |-> "Damage"]>>]
    /\ UNCHANGED <<now, ticks, basePath, memCache, pc, lv>>
    /\ UNCHANGED <<fetchVars, playerVars, uiVars, lockVars>>

TickSteps == {1, TTL - 1}

\* the clock advances between operations
TickFrom(steps) ==
    /\ \A p \in Procs : pc[p] = "idle"
    /\ ticks < MaxTicks
    /\ \E d \in steps : now' = now + d
    /\ ticks' = ticks + 1
    /\ ret' = [p \in Procs |-> <<NoEvent, [op |-> "Tick"]>>]
    /\ UNCHANGED <<basePath, memCache, dir, pc, lv>>
    /\ UNCHANGED <<fetchVars, playerVars, uiVars, lockVars>>

Tick == TickFrom(TickSteps)

\* the process is interrupted in the middle of an operation and started
\* again: memory is lost, files stay as they are
Crash ==
    /\ \E p \in Procs : pc[p] # "idle"
    /\ pc' = [p \in Procs |-> "idle"]
    /\ lv' = [p \in Procs |-> NoLocals]
    /\ memCache' = <<>>
    /\ ret' = [p \in Procs |-> <<NoEvent, [op |-> "Crash"]>>]
    /\ UNCHANGED <<now, ticks, basePath, dir>>
    /\ UNCHANGED <<fetchVars, playerVars, uiVars, lockVars>>

\* the process ends between two operations and is started again
Restart ==
    /\ \A p \in Procs : pc[p] = "idle"
    /\ memCache # <<>>
    /\ memCache' = <<>>
    /\ ret' = [p \in Procs |-> <<NoEvent, [op |-> "Restart"]>>]
    /\ UNCHANGED <<now, ticks, basePath, dir, pc, lv>>
    /\ UNCHANGED <<fetchVars, playerVars, uiVars, lockVars>>

\* ---------------------------------------------------------------------------
\* The player Service (package player) and the tracks it observes
\* (package track).  Time is counted in half seconds, so that the whole
\* seconds of an elapsed time differ from the elapsed time itself.

MaxPlayerTicks == 2                 \* the player clock advances at most this often
MaxStarts == 2                      \* Start is called at most this often
MaxPolls == 18                      \* Poll is called at most this often where the
                                    \* consumer takes the events at any pace
Elapse == 11                        \* one advance of the player clock: 5.5 seconds
HalfSecondsPerSecond == 2
eventChanCap == 16                  \* make(chan EventData, 16)
microsPerSecond == 1000000          \* positionMicroseconds / 1_000_000
seekTolerance == 3                  \* diff > 3

EventTrackChanged == "TrackChanged"
EventPlaybackStateChanged == "PlaybackStateChanged"
EventSeeked == "Seeked"

\* A track.Info value.  The album, the duration and the artwork play no part in
\* what the Service does with a track.
Info(title, artist, id) ==
    [Title |-> title, Artist |-> artist, Album |-> "", DurationSecs |-> 0,
     ArtworkURL |-> "", TrackID |-> id]

\* The tracks the player reports: two with different ids, one with the id of
\* the first under another title, one without an id that has the title and the
\* artist of the first, and one without a title.
Infos ==
    {Info("x", "a", "id1"), Info("y", "b", "id2"), Info("z", "a", "id1"),
     Info("x", "a", ""), Info("", "a", "id3")}

IsValid(t) == t.Title # "" /\ t.Artist # ""

IsSameTrackByTitle(t, other) ==
    IF t = Nil \/ other = Nil THEN t = other
    ELSE t.Title = other.Title /\ t.Artist = other.Artist

IsSameTrack(t, other) ==
    IF t = Nil \/ other = Nil THEN t = other
    ELSE IF t.TrackID # "" /\ other.TrackID # "" THEN t.TrackID = other.TrackID
    ELSE t.Title = other.Title /\ t.Artist = other.Artist

\* EventData: the fields a producer leaves out hold their zero values.
EventData(type, trk, pos, playing) ==
    [Type |-> type, Track |-> trk, Position |-> pos, Playing |-> playing]

\* &State{}
ZeroState ==
    [Track |-> Nil, PositionSecs |-> 0, Playing |-> FALSE,
     lastPositionUpdate |-> 0, lastPositionSecs |-> 0]

Abs(n) == IF n < 0 THEN -n ELSE n

\* int64(elapsed.Seconds()) of the time between two readings of the clock
WholeSeconds(from, to) == (to - from) \div HalfSecondsPerSecond

DetectSeekNoTolerance(s, currentPos, t) ==
    IF s.lastPositionUpdate = 0 THEN FALSE
    ELSE Abs(currentPos - (s.lastPositionSecs + WholeSeconds(s.lastPositionUpdate, t))) > 0

DetectSeek(s, currentPos, t) ==
    IF s.lastPositionUpdate = 0 THEN FALSE
    ELSE Abs(currentPos - (s.lastPositionSecs + WholeSeconds(s.lastPositionUpdate, t)))
             > seekTolerance

UpdatePosition(s, pos, t) ==
    [s EXCEPT !.PositionSecs = pos, !.lastPositionSecs = pos, !.lastPositionUpdate = t]

\* The non-blocking send of emitEvent on a queue q.
emitEventAlways(q, event) == Append(q, event)

emitEvent(q, event) ==
    IF Len(q) < eventChanCap THEN Append(q, event) ELSE q

RECURSIVE emitAll(_, _)
emitAll(q, events) ==
    IF events = <<>> THEN q ELSE emitAll(emitEvent(q, Head(events)), Tail(events))

\* What the player answers to a read of its position, in microseconds, and the
\* seconds GetCurrentPosition makes of it.
PositionMicros == {-1, 10000000, 16500000, 18000000, 25000000}

Seconds(micros) == IF micros < 0 THEN 0 ELSE micros \div microsPerSecond

\* Poll after both reads succeeded, on the state s at the time t: the state it
\* leaves and the events it passes to emitEvent.
PollOn(s, trk, pos, t) ==
    LET seekDetected == DetectSeek(s, pos, t)
        updated == UpdatePosition(s, pos, t)
    IN  IF ~IsSameTrack(trk, s.Track)
        THEN [state |-> [updated EXCEPT !.Track = trk],
              events |-> <<EventData(EventTrackChanged, trk, pos, FALSE)>>]
        ELSE [state |-> updated,
              events |-> IF seekDetected
                         THEN <<EventData(EventSeeked, Nil, pos, FALSE)>>
                         ELSE <<>>]

\* The signals the bus delivers: property changes of the player interface with
\* a Metadata and a PlaybackStatus entry (either may be absent), property
\* changes of another interface, seeks, and signals under other names. The
\* value of a Metadata entry is a map of properties or a value of another
\* shape.
Absent == [absent |-> TRUE]
Variant(v) == [value |-> v]
Malformed == [malformed |-> TRUE]

PropertiesChanged(iface, metadata, status) ==
    [Name |-> "PropertiesChanged", iface |-> iface, Metadata |-> metadata,
     PlaybackStatus |-> status]

SeekedSignal(micros) == [Name |-> "Seeked", micros |-> micros]

mprisPlayerIface == "org.mpris.MediaPlayer2.Player"

Signals ==
    {PropertiesChanged(mprisPlayerIface, m, Absent) : m \in Infos}
    \cup {PropertiesChanged(mprisPlayerIface, Absent, Variant(st)) :
              st \in {"Playing", "Paused"}}
    \cup {PropertiesChanged(mprisPlayerIface, Info("y", "b", "id2"), Variant("Playing")),
          PropertiesChanged("org.mpris.MediaPlayer2", Info("y", "b", "id2"),
                            Variant("Playing"))}
    \cup {PropertiesChanged(mprisPlayerIface, Malformed, Variant("Playing"))}
    \cup {SeekedSignal(m) : m \in {-1, 10000000, 25000000}}
    \cup {[Name |-> "NameOwnerChanged"]}

\* handlePropertiesChanged and handleSeeked on the state s at the time t.
MetadataOn(s, sig, t) ==
    IF sig.Metadata # Absent /\ IsValid(sig.Metadata)
    THEN [state |-> [s EXCEPT !.Track = sig.Metadata, !.lastPositionUpdate = t,
                              !.lastPositionSecs = 0],
          events |-> <<EventData(EventTrackChanged, sig.Metadata, 0, FALSE)>>]
    ELSE [state |-> s, events |-> <<>>]

PlaybackOn(s, sig, t) ==
    IF sig.PlaybackStatus # Absent
    THEN [state |-> [s EXCEPT !.Playing = (sig.PlaybackStatus.value = "Playing"),
                              !.lastPositionUpdate = t],
          events |-> <<EventData(EventPlaybackStateChanged, Nil, 0,
                                 sig.PlaybackStatus.value = "Playing")>>]
    ELSE [state |-> s, events |-> <<>>]

handlePropertiesChanged(s, sig, t) ==
    IF sig.iface # mprisPlayerIface THEN [state |-> s, events |-> <<>>]
    ELSE IF sig.Metadata = Malformed THEN [state |-> s, events |-> <<>>]
    ELSE LET m == MetadataOn(s, sig, t)
             p == PlaybackOn(m.state, sig, t)
         IN  [state |-> p.state, events |-> m.events \o p.events]

handleSeeked(s, sig, t) ==
    IF sig.micros < 0 THEN [state |-> s, events |-> <<>>]
    ELSE LET pos == sig.micros \div microsPerSecond
         IN  [state |-> UpdatePosition(s, pos, t),
              events |-> <<EventData(EventSeeked, Nil, pos, FALSE)>>]

handleSignal(s, sig, t) ==
    IF sig.Name = "PropertiesChanged" THEN handlePropertiesChanged(s, sig, t)
    ELSE IF sig.Name = "Seeked" THEN handleSeeked(s, sig, t)
    ELSE [state |-> s, events |-> <<>>]

\* The position a signal makes known at the time t, if it makes one known: a
\* seek tells the position, a track that begins is at its start.
Observation(sig, t, old) ==
    IF sig.Name = "Seeked" /\ sig.micros >= 0
    THEN [pos |-> sig.micros \div microsPerSecond, at |-> t]
    ELSE IF /\ sig.Name = "PropertiesChanged"
            /\ sig.iface = mprisPlayerIface
            /\ sig.Metadata # Absent
            /\ sig.Metadata # Malformed
            /\ IsValid(sig.Metadata)
    THEN [pos |-> 0, at |-> t]
    ELSE old

NoObservation == [pos |-> 0, at |-> 0]
NoOperation == [op |-> "none", bit |-> 0]
NothingHanded == [by |-> "none"]

\* NewService
InitPlayer ==
    /\ mono = 1
    /\ state = ZeroState
    /\ eventChan = <<>>
    /\ stopChan = 0
    /\ closed = {}
    /\ stopOnce = FALSE
    /\ loops = <<>>
    /\ handed = NothingHanded
    /\ last = NoOperation
    /\ emitted = <<>>
    /\ observed = NoObservation
    /\ stopped = FALSE
    /\ polls = 0

\* NewModel with the SyncOffset 0 of the configuration: no track, no lines
InitialModel ==
    [Track |-> NoTrack, Lines |-> FALSE, syncOffset |-> 0, loadingLyrics |-> FALSE,
     handled |-> NoMsg]

\* NewModel: no lines, display.CurrentIndex = -1, position 0; from is the track
\* whose lyrics command brought what the display shows
InitialDisplay ==
    [Lines |-> <<>>, CurrentIndex |-> -1, PrevIndex |-> 0, positionSecs |-> 0,
     from |-> NoTrack]

\* Poll is not running and the signal loop waits for a signal
NoCall == [at |-> "idle", n |-> 0]
InitialControl == [poll |-> NoCall, signal |-> NoCall]

InitCache ==
    /\ now = 1
    /\ ticks = 0
    /\ basePath \in {"", "lyrics"}
    /\ memCache = <<>>
    /\ dir = <<>>
    /\ pc = [p \in Procs |-> "idle"]
    /\ lv = [p \in Procs |-> NoLocals]
    /\ ret = [p \in Procs |-> <<NoEvent, NoEvent>>]
    /\ track = NoTrack
    /\ strategies = <<>>
    /\ idx = 0
    /\ rawQuery = <<>>
    /\ requests = <<>>
    /\ lastErr = NoError
    /\ payload = Nil
    /\ lastReply = NoReply
    /\ held = Nil
    /\ ctx = NotCancelled
    /\ fetches = 0
    /\ fres = NoEvent
    /\ InitPlayer
    /\ model = InitialModel
    /\ display = InitialDisplay
    /\ cmds = {}
    /\ found = NoEvent
    /\ mu = "free"
    /\ ctl = InitialControl
    /\ replaced = <<>>

vars == <<cacheVars, fetchVars, playerVars, uiVars, lockVars>>

GetSteps(p) ==
    \/ GetCall(p) \/ GetEvict(p) \/ GetDisk(p) \/ GetExpiry(p) \/ GetPromote(p)

SetSteps(p) ==
    \/ SetCall(p) \/ SetCreate(p) \/ SetEncode(p) \/ SetSync(p) \/ SetClose(p)
    \/ SetRename(p) \/ SetFail(p)

\* one caller at a time, the clock advances between the calls
NextSeq ==
    \/ GetSteps(1) \/ SetSteps(1)
    \/ DeleteCall(1) \/ ClearCall(1) \/ PruneCall(1)
    \/ Tick
    \/ Restart

SpecSeq == InitCache /\ [][NextSeq]_vars

\* one caller at a time on two keys, with files that get damaged
DiskArtists == {<<>>, <<"a">>, <<"b">>}
DiskTitles == {<<"x">>}
DiskEntries == {NewEntry(OffsetPayload)}

NextDisk ==
    \/ GetFrom(1, DiskArtists, DiskTitles)
    \/ GetEvict(1) \/ GetDisk(1) \/ GetExpiry(1) \/ GetPromote(1)
    \/ SetFrom(1, DiskArtists, DiskTitles, DiskEntries)
    \/ SetCreate(1) \/ SetEncode(1) \/ SetSync(1) \/ SetClose(1) \/ SetRename(1)
    \/ DeleteFrom(1, DiskArtists, DiskTitles)
    \/ ClearCall(1) \/ PruneCall(1) \/ StatsCall(1) \/ ListAllCall(1)
    \/ TickFrom({TTL})
    \/ Restart
    \/ Damage

SpecDisk == InitCache /\ [][NextDisk]_vars

\* one caller at a time, interrupted at any step
NextCrash ==
    \/ SetSteps(1)
    \/ DeleteCall(1)
    \/ Crash

SpecCrash == InitCache /\ [][NextCrash]_vars

\* two goroutines use the cache at once
NextConc ==
    \E p \in Procs :
        \/ GetSameKey(p) \/ GetDisk(p) \/ GetExpiry(p) \/ GetPromote(p)
        \/ SetSameKey(p) \/ SetCreate(p) \/ SetEncode(p) \/ SetSync(p) \/ SetClose(p)
        \/ SetRename(p) \/ SetFail(p)

SpecConc == InitCache /\ [][NextConc]_vars

---------------------------------------------------------------------------
(* package lyrics: string helpers *)

RECURSIVE TrimLeft(_)
TrimLeft(s) == IF s # <<>> /\ s[1] = " " THEN TrimLeft(Tail(s)) ELSE s

RECURSIVE TrimRight(_)
TrimRight(s) ==
    IF s # <<>> /\ s[Len(s)] = " " THEN TrimRight(SubSeq(s, 1, Len(s) - 1)) ELSE s

\* strings.TrimSpace
TrimSpace(s) == TrimRight(TrimLeft(s))

\* strings.Contains(s, "  ")
ContainsDouble(s) == \E i \in 1..(Len(s) - 1) : s[i] = " " /\ s[i + 1] = " "

\* strings.ReplaceAll(s, "  ", " "): one pass from the left, matches do not overlap
RECURSIVE ReplaceDouble(_)
ReplaceDouble(s) ==
    IF Len(s) < 2 THEN s
    ELSE IF s[1] = " " /\ s[2] = " " THEN <<" ">> \o ReplaceDouble(Tail(Tail(s)))
    ELSE <<s[1]>> \o ReplaceDouble(Tail(s))

\* for strings.Contains(s, "  ") { s = strings.ReplaceAll(s, "  ", " ") }
RECURSIVE CollapseSpaces(_)
CollapseSpaces(s) == IF ContainsDouble(s) THEN CollapseSpaces(ReplaceDouble(s)) ELSE s

normalizeStringKeep(s) == s

normalizeString(s) == TrimSpace(CollapseSpaces(TrimSpace(s)))

\* strings.Index counted from 1, and 0 when c does not occur
Index(s, c) ==
    IF \E i \in 1..Len(s) : s[i] = c
    THEN CHOOSE i \in 1..Len(s) : s[i] = c /\ \A j \in 1..(i - 1) : s[j] # c
    ELSE 0

\* while both delimiters occur and the first close is after the first open,
\* the span between them is replaced by one space
RECURSIVE StripPair(_, _, _)
StripPair(s, open, close) ==
    LET start == Index(s, open)
        end == Index(s, close)
    IN
    IF start > 0 /\ end > 0 /\ end > start
    THEN StripPair(SubSeq(s, 1, start - 1) \o <<" ">> \o SubSeq(s, end + 1, Len(s)),
                   open, close)
    ELSE s

stripVersionInfo(s) ==
    TrimSpace(CollapseSpaces(StripPair(StripPair(TrimSpace(s), "(", ")"), "[", "]")))

\* strings.Fields
RECURSIVE SplitFields(_)
SplitFields(s) ==
    LET t == TrimLeft(s) IN
    IF t = <<>> THEN <<>>
    ELSE LET n == IF Index(t, " ") = 0 THEN Len(t) ELSE Index(t, " ") - 1 IN
         <<SubSeq(t, 1, n)>> \o SplitFields(SubSeq(t, n + 1, Len(t)))

\* strings.Join(words, " ")
RECURSIVE Join(_)
Join(words) ==
    IF words = <<>> THEN <<>>
    ELSE IF Len(words) = 1 THEN words[1]
    ELSE words[1] \o <<" ">> \o Join(Tail(words))

toTitleCase(s) ==
    LET words == SplitFields(s) IN
    Join([i \in 1..Len(words) |->
             ToUpper(SubSeq(words[i], 1, 1)) \o ToLower(Tail(words[i]))])

---------------------------------------------------------------------------
(* package lyrics: the search strategies of Fetch *)

Strategy(artist, title, album, duration) ==
    [artist |-> artist, title |-> title, album |-> album, duration |-> duration]

searchStrategies(t) ==
    LET normalizedArtist == normalizeString(t.Artist)
        normalizedTitle == normalizeString(t.Title)
    IN
    << Strategy(normalizedArtist, normalizedTitle, t.Album, t.DurationSecs),
       Strategy(normalizedArtist, normalizedTitle, <<>>, t.DurationSecs),
       Strategy(normalizedArtist, normalizedTitle, <<>>, 0),
       Strategy(stripVersionInfo(t.Artist), stripVersionInfo(t.Title), <<>>, 0),
       Strategy(ToUpper(normalizedArtist), ToUpper(normalizedTitle), <<>>, 0),
       Strategy(ToLower(normalizedArtist), ToLower(normalizedTitle), <<>>, 0),
       Strategy(toTitleCase(normalizedArtist), toTitleCase(normalizedTitle), <<>>, 0),
       Strategy(t.Artist, t.Title, <<>>, 0) >>

\* fmt.Sprintf("%s|%s|%s|%d", artist, title, album, duration)
strategyKey(st) ==
    st.artist \o <<"|">> \o st.title \o <<"|">> \o st.album \o <<"|", ToString(st.duration)>>

\* the deduplication loop: empty names are skipped, a seen key is skipped
RECURSIVE Dedup(_, _)
Dedup(list, seen) ==
    IF list = <<>> THEN <<>>
    ELSE LET strategy == Head(list) IN
         IF strategy.artist = <<>> \/ strategy.title = <<>> \/ strategyKey(strategy) \in seen
         THEN Dedup(Tail(list), seen)
         ELSE <<strategy>> \o Dedup(Tail(list), seen \cup {strategyKey(strategy)})

uniqueStrategies(t) == Dedup(searchStrategies(t), {})

---------------------------------------------------------------------------
(* package lyrics: the request URL *)

\* the parameter names in the order url.Values.Encode emits them (sorted)
QueryKeys == <<"album_name", "artist_name", "duration", "track_name">>

RECURSIVE EncodeFrom(_, _)
EncodeFrom(q, i) ==
    IF i > Len(QueryKeys) THEN <<>>
    ELSE IF QueryKeys[i] \in DOMAIN q
    THEN <<<<QueryKeys[i], q[QueryKeys[i]]>>>> \o EncodeFrom(q, i + 1)
    ELSE EncodeFrom(q, i + 1)

\* url.Values.Encode: the key=value pairs, sorted by key
QueryEncode(q) == EncodeFrom(q, 1)

\* URL.Query(): the pairs of RawQuery parsed into a map
QueryParse(raw) ==
    [k \in {raw[i][1] : i \in 1..Len(raw)} |->
        raw[CHOOSE i \in 1..Len(raw) : raw[i][1] = k][2]]

\* query.Set(name, value)
QuerySet(q, name, value) ==
    [k \in DOMAIN q \cup {name} |-> IF k = name THEN value ELSE q[k]]

\* the parameters one loop iteration sets on the query it starts from
SetParams(q, strategy) ==
    LET q1 == QuerySet(q, "artist_name", strategy.artist)
        q2 == QuerySet(q1, "track_name", strategy.title)
        q3 == IF strategy.album # <<>> THEN QuerySet(q2, "album_name", strategy.album)
              ELSE q2
    IN
    IF strategy.duration > 0 THEN QuerySet(q3, "duration", <<ToString(strategy.duration)>>)
    ELSE q3

---------------------------------------------------------------------------
(* package lyrics: errors and the answers of the remote service *)

\* an error value: the sentinels errors.Is finds in its chain, and the words
\* of its Error() text
Error(is, text) == [is |-> is, text |-> text]

\* strings.Contains on the words of a text
ContainsWords(text, phrase) ==
    \E i \in 0..(Len(text) - Len(phrase)) : SubSeq(text, i + 1, i + Len(phrase)) = phrase

isTimeoutErrorNever(err) == FALSE

isTimeoutError(err) ==
    /\ err # NoError
    /\ \/ "context.DeadlineExceeded" \in err.is
       \/ ContainsWords(err.text, <<"timeout">>)
       \/ ContainsWords(err.text, <<"deadline", "exceeded">>)
       \/ ContainsWords(err.text, <<"i/o", "timeout">>)

\* client.Do: the request context or Client.Timeout ran out
DeadlineError ==
    Error({"context.DeadlineExceeded"}, <<"Get", "url:", "context", "deadline", "exceeded">>)

\* client.Do: the dialer's timeout ran out
DialError == Error({}, <<"Get", "url:", "dial", "tcp:", "i/o", "timeout">>)

NoLyricsError == Error({}, <<"no", "lyrics", "in", "response">>)

\* client.Do: the request context was cancelled
CanceledError == Error({"context.Canceled"}, <<"Get", "url:", "context", "canceled">>)

\* an answer to client.Do: a transport error, or a status with a body; the
\* body of a 200 is JSON text, json is what it unmarshals to (Nil: malformed)
Failed(err) == [transport |-> err, code |-> 0, body |-> <<>>, json |-> Nil]
Status(code, body) == [transport |-> NoError, code |-> code, body |-> body, json |-> Nil]
Json(p) == [transport |-> NoError, code |-> 200, body |-> <<>>, json |-> p]

NoLyricsPayload == Payload("song", "", "", FALSE, 0)
PlainPayload == Payload("song", "Hello", "", FALSE, 0)

Replies ==
    { Failed(DeadlineError), Failed(DialError),
      Status(404, <<>>),
      Status(500, <<"internal", "error">>),
      Status(504, <<"upstream", "request", "timeout">>),
      Json(Nil),
      Json(NoLyricsPayload), Json(SyncedPayload), Json(PlainPayload),
      Json(InstrumentalPayload) }

\* what doFetchRequest returns for an answer
doFetchRequest(reply) ==
    IF reply.transport # NoError
    THEN [payload |-> Nil, err |-> reply.transport]
    ELSE IF reply.code = 404
    THEN [payload |-> Nil, err |-> Error({}, <<"status", "404:", "lyrics", "not", "found">>)]
    ELSE IF reply.code # 200
    THEN [payload |-> Nil,
          err |-> Error({}, <<"lrclib", "returned", "status", ToString(reply.code), ":">>
                            \o reply.body)]
    ELSE IF reply.json = Nil
    THEN [payload |-> Nil,
          err |-> Error({"json.SyntaxError"},
                        <<"failed", "to", "decode", "lrclib", "json:", "unexpected", "end",
                          "of", "JSON", "input">>)]
    ELSE [payload |-> reply.json, err |-> NoError]

hasLyricsIgnoringFlag(p) == p.PlainLyrics # "" \/ p.SyncedLyrics # ""

\* the negation of the "no lyrics in response" test
hasLyrics(p) == p.PlainLyrics # "" \/ p.SyncedLyrics # "" \/ p.Instrumental

\* the errors Fetch returns
FetchNil == [kind |-> "nil"]
FetchEmpty == [kind |-> "track title or artist is empty"]
FetchEmptyNormalized == [kind |-> "track title or artist is empty after normalization"]
FetchTooSlow == [kind |-> "lyrics server took too long to respond"]
\* parentCtx.Err()
FetchCanceled == [kind |-> "context canceled"]
\* fmt.Errorf("no lyrics found for %s - %s: %w", track.Artist, track.Title, lastErr)
FetchNotFound(t, err) ==
    [kind |-> "no lyrics found for", artist |-> t.Artist, title |-> t.Title, wraps |-> err]
FetchNotFoundBare(t) ==
    [kind |-> "no lyrics found for (tried multiple search variations)",
     artist |-> t.Artist, title |-> t.Title]

FetchResult(p, err) == [op |-> "Fetch", payload |-> p, err |-> err]

---------------------------------------------------------------------------
(* lyrics.Fetch *)

FetchArtists == {<<>>, <<" ">>, <<" ", "a", "B", " ", "(", "x", ")">>}
FetchTitles == {<<>>, <<"x", " ", " ", "[", "b", "]">>}
FetchAlbums == {<<>>, <<"b">>}
FetchDurations == {0, 5}

\* every combination for names that pass the checks, the bare names otherwise
Tracks ==
    {t \in [Artist : FetchArtists, Title : FetchTitles, Album : FetchAlbums,
            DurationSecs : FetchDurations] :
        \/ TrimLeft(t.Artist) # <<>> /\ TrimLeft(t.Title) # <<>>
        \/ t.Album = <<>> /\ t.DurationSecs = 0}

\* the entry a lookup of artist and title finds at this moment, Nil if none
HeldEntry(artist, title) ==
    LET key == generateKey(artist, title)
        path == getFilePath(key)
    IN
    IF artist = <<>> \/ title = <<>> THEN Nil
    ELSE IF key \in DOMAIN memCache /\ ~Expired(memCache[key], now) THEN memCache[key]
    ELSE IF basePath # "" /\ ReadResult(path) = "nil"
            /\ ~Expired(GobDecode(ContentAt(path)), now)
    THEN GobDecode(ContentAt(path))
    ELSE Nil

cachedResponseNoOffset(e) == [PayloadOf(e) EXCEPT !.SyncOffset = 0]

\* &LrclibResponse{...}: the eight fields of the cached entry
cachedResponse(e) == PayloadOf(e)

DoneNever(c) == FALSE

\* <-parentCtx.Done() is ready
Done(c) == c.done

dropSetErrorNot(err) == IF err = "nil" THEN FetchNil ELSE [kind |-> err]

\* _ = diskCache.Set(...): the error of Set is discarded
dropSetError(err) == FetchNil

\* Fetch returns to its caller
FetchReturn(p, err) ==
    /\ pc' = [pc EXCEPT ![1] = "idle"]
    /\ fres' = FetchResult(p, err)

\* the argument checks, then the lookup in the cache under the original names
FetchFrom(tracks) ==
    /\ pc[1] = "idle"
    /\ fetches < MaxFetches
    /\ fetches' = fetches + 1
    /\ \E t \in tracks :
        /\ track' = t
        /\ held' = HeldEntry(t.Artist, t.Title)
        /\ IF t.Title = <<>> \/ t.Artist = <<>>
           THEN /\ fres' = FetchResult(Nil, FetchEmpty)
                /\ UNCHANGED <<memCache, dir, pc, lv, ret>>
           ELSE IF normalizeString(t.Title) = <<>> \/ normalizeString(t.Artist) = <<>>
           THEN /\ fres' = FetchResult(Nil, FetchEmptyNormalized)
                /\ UNCHANGED <<memCache, dir, pc, lv, ret>>
           ELSE /\ fres' = NoEvent
                /\ GetBegin(1, "fetch_cached", t.Artist, t.Title)
    /\ strategies' = <<>>
    /\ idx' = 0
    /\ rawQuery' = <<>>
    /\ requests' = <<>>
    /\ lastErr' = NoError
    /\ payload' = Nil
    /\ lastReply' = NoReply
    /\ ctx' = NotCancelled
    /\ UNCHANGED <<now, ticks, basePath>>
    /\ UNCHANGED playerVars

FetchCall == FetchFrom(Tracks) /\ UNCHANGED <<uiVars, lockVars>>

\* a hit is returned, otherwise the unique strategies are built
FetchCached ==
    /\ pc[1] = "fetch_cached"
    /\ LET cached == ret[1][2] IN
       IF cached.err = "nil" /\ cached.val # Nil
       THEN /\ FetchReturn(cachedResponse(cached.val), FetchNil)
            /\ UNCHANGED <<strategies, idx>>
       ELSE /\ strategies' = uniqueStrategies(track)
            /\ idx' = 1
            /\ pc' = [pc EXCEPT ![1] = "fetch_query"]
            /\ UNCHANGED fres
    /\ UNCHANGED <<now, ticks, basePath, memCache, dir, lv, ret>>
    /\ UNCHANGED <<track, rawQuery, requests, lastErr, payload, lastReply, fetches>>
    /\ UNCHANGED <<held, ctx>>
    /\ UNCHANGED <<playerVars, uiVars, lockVars>>

\* the loop head: the query of the URL is read, set and written back
FetchQuery ==
    /\ pc[1] = "fetch_query"
    /\ rawQuery' = QueryEncode(SetParams(QueryParse(rawQuery), strategies[idx]))
    /\ pc' = [pc EXCEPT ![1] = IF idx > 1 THEN "fetch_delay" ELSE "fetch_request"]
    /\ UNCHANGED <<now, ticks, basePath, memCache, dir, lv, ret>>
    /\ UNCHANGED <<track, strategies, idx, requests, lastErr, payload, lastReply, fetches,
                   fres>>
    /\ UNCHANGED <<held, ctx>>
    /\ UNCHANGED <<playerVars, uiVars, lockVars>>

\* the pause between strategies, given up when the context is cancelled
FetchDelay ==
    /\ pc[1] = "fetch_delay"
    /\ IF Done(ctx)
       THEN FetchReturn(Nil, FetchCanceled)
       ELSE pc' = [pc EXCEPT ![1] = "fetch_request"] /\ UNCHANGED fres
    /\ UNCHANGED <<now, ticks, basePath, memCache, dir, lv, ret>>
    /\ UNCHANGED <<track, strategies, idx, rawQuery, requests, lastErr, payload, lastReply,
                   held, ctx, fetches>>
    /\ UNCHANGED <<playerVars, uiVars, lockVars>>

\* the next iteration, or the return after the loop
NextStrategy(err) ==
    IF idx < Len(strategies)
    THEN /\ idx' = idx + 1
         /\ pc' = [pc EXCEPT ![1] = "fetch_query"]
         /\ UNCHANGED fres
    ELSE /\ FetchReturn(Nil, IF err # NoError THEN FetchNotFound(track, err)
                             ELSE FetchNotFoundBare(track))
         /\ UNCHANGED idx

\* doFetchRequest sends the request for the URL as it stands; with a
\* cancelled context client.Do fails before anything is sent
FetchRequest ==
    /\ pc[1] = "fetch_request"
    /\ IF Done(ctx)
       THEN /\ lastErr' = CanceledError
            /\ NextStrategy(CanceledError)
            /\ UNCHANGED requests
       ELSE /\ requests' = Append(requests, rawQuery)
            /\ pc' = [pc EXCEPT ![1] = "fetch_wait"]
            /\ UNCHANGED <<lastErr, idx, fres>>
    /\ UNCHANGED <<now, ticks, basePath, memCache, dir, lv, ret>>
    /\ UNCHANGED <<track, strategies, rawQuery, payload, lastReply, held, ctx, fetches>>
    /\ UNCHANGED <<playerVars, uiVars, lockVars>>

\* the answer arrives (a cancelled request fails): accept and store, try the
\* next strategy, or give up
FetchReplyFrom(replies) ==
    /\ pc[1] = "fetch_wait"
    /\ \E reply \in (IF Done(ctx) THEN {Failed(CanceledError)} ELSE replies) :
        LET res == doFetchRequest(reply) IN
        /\ lastReply' = [n |-> Len(requests), reply |-> reply]
        /\ IF res.err = NoError
           THEN IF ~hasLyrics(res.payload)
                THEN /\ lastErr' = NoLyricsError
                     /\ NextStrategy(NoLyricsError)
                     /\ UNCHANGED <<memCache, lv, ret, payload>>
                ELSE /\ payload' = res.payload
                     /\ SetBegin(1, "fetch_stored", track.Artist, track.Title,
                                 NewEntry(res.payload))
                     /\ UNCHANGED <<lastErr, idx, fres>>
           ELSE /\ lastErr' = res.err
                /\ IF isTimeoutError(res.err)
                   THEN FetchReturn(Nil, FetchTooSlow) /\ UNCHANGED idx
                   ELSE NextStrategy(res.err)
                /\ UNCHANGED <<memCache, lv, ret, payload>>
    /\ UNCHANGED <<now, ticks, basePath, dir>>
    /\ UNCHANGED <<track, strategies, rawQuery, requests, fetches>>
    /\ UNCHANGED <<held, ctx>>
    /\ UNCHANGED <<playerVars, uiVars, lockVars>>

FetchReply == FetchReplyFrom(Replies)

\* Set has returned, its error is dropped, the payload is returned
FetchStored ==
    /\ pc[1] = "fetch_stored"
    /\ FetchReturn(payload, dropSetError(ret[1][2].err))
    /\ UNCHANGED <<now, ticks, basePath, memCache, dir, lv, ret>>
    /\ UNCHANGED <<track, strategies, idx, rawQuery, requests, lastErr, payload, lastReply,
                   fetches>>
    /\ UNCHANGED <<held, ctx>>
    /\ UNCHANGED <<playerVars, uiVars, lockVars>>

\* the interface reads the entry of the track it has just resolved
GetFetched ==
    /\ pc[1] = "idle"
    /\ fres # NoEvent
    /\ GetBegin(1, "idle", track.Artist, track.Title)
    /\ UNCHANGED <<now, ticks, basePath>>
    /\ UNCHANGED <<fetchVars, playerVars, uiVars, lockVars>>

\* the caller cancels the context while Fetch is in its loop
Cancel ==
    /\ pc[1] \in {"fetch_query", "fetch_delay", "fetch_request", "fetch_wait"}
    /\ ~ctx.done
    /\ ctx' = [done |-> TRUE, at |-> pc[1], n |-> Len(requests)]
    /\ UNCHANGED cacheVars
    /\ UNCHANGED <<track, strategies, idx, rawQuery, requests, lastErr, payload, lastReply,
                   held, fetches, fres>>
    /\ UNCHANGED <<playerVars, uiVars, lockVars>>

SyncOffsets == {2}

\* the interface stores a changed sync offset: its lookup (GetFetched) found
\* the entry, the offset is set in it and the entry is stored
SaveSyncOffsetSet ==
    /\ pc[1] = "idle"
    /\ fres # NoEvent
    /\ LET cached == ret[1][2] IN
       /\ cached.op = "Get"
       /\ cached.artist = track.Artist /\ cached.title = track.Title
       /\ cached.err = "nil"
       /\ \E offset \in SyncOffsets :
              SetBegin(1, "idle", track.Artist, track.Title,
                       [cached.val EXCEPT !.SyncOffset = offset])
    /\ UNCHANGED <<now, ticks, basePath, dir>>
    /\ UNCHANGED <<fetchVars, playerVars, uiVars, lockVars>>

NextFetch ==
    \/ FetchCall \/ FetchCached \/ FetchQuery \/ FetchDelay \/ FetchRequest
    \/ FetchReply \/ FetchStored \/ Cancel
    \/ SaveSyncOffsetSet
    \/ GetFetched \/ GetDisk(1) \/ GetExpiry(1) \/ GetPromote(1)
    \/ SetCreate(1) \/ SetEncode(1) \/ SetSync(1) \/ SetClose(1) \/ SetRename(1)
    \/ SetFail(1)
    \/ Restart

SpecFetch == InitCache /\ [][NextFetch]_vars

---------------------------------------------------------------------------
(* The player Service: its operations *)

Flip == 1 - last.bit

\* The exported fields of a State.
Exported(s) == [Track |-> s.Track, PositionSecs |-> s.PositionSecs, Playing |-> s.Playing]

\* The State a caller sees through a value an accessor handed out.
View(h) == IF h.ref THEN Exported(state) ELSE h.val

\* Poll: reads the track and the position from the player; either read may
\* fail, and then Poll returns the error.
Reads == {"ok", "no track", "no position"}

\* GetCurrentTrack and GetCurrentPosition succeed: the property was read and
\* has the right shape, and the track has a title and an artist.
ReadsEveryone(read, trk) == read = "ok"

ReadsOk(read, trk) == read = "ok" /\ IsValid(trk)

PollFrom(infos, micros, reads) ==
    \E trk \in infos, m \in micros, read \in reads :
        LET ok == ReadsOk(read, trk)
            pos == Seconds(m)
            r == IF ok THEN PollOn(state, trk, pos, mono)
                 ELSE [state |-> state, events |-> <<>>]
        IN  /\ state' = r.state
            /\ emitted' = r.events
            /\ eventChan' = emitAll(eventChan, r.events)
            /\ observed' = IF ok THEN [pos |-> pos, at |-> mono] ELSE observed
            /\ last' = [op |-> "Poll", bit |-> Flip, ok |-> ok, read |-> read,
                         named |-> trk.Title # "" /\ trk.Artist # "",
                         trk |-> IF ok THEN trk ELSE Nil, pos |-> IF ok THEN pos ELSE 0]
            /\ UNCHANGED <<mono, stopChan, closed, stopOnce, loops, handed, stopped>>
            /\ UNCHANGED <<cacheVars, fetchVars, uiVars, lockVars>>

Poll == PollFrom(Infos, PositionMicros, Reads) /\ UNCHANGED polls

\* A Poll that is counted.
PollCounted(infos, micros) ==
    /\ polls < MaxPolls
    /\ polls' = polls + 1
    /\ PollFrom(infos, micros, {"ok"})

\* signalLoop takes a signal from its channel and handles it; it then reads
\* s.stopChan for its next select, without the lock and so in a race with a
\* later Start.
SignalFrom(l, sigs) ==
    /\ l \in DOMAIN loops
    /\ loops[l].alive
    /\ \E sig \in sigs, c \in {loops[l].stop, stopChan} :
           LET r == handleSignal(state, sig, mono)
           IN  /\ state' = r.state
               /\ emitted' = r.events
               /\ eventChan' = emitAll(eventChan, r.events)
               /\ observed' = Observation(sig, mono, observed)
               /\ last' = [op |-> "Signal", bit |-> Flip, sig |-> sig, loop |-> l,
                           after |-> stopped]
               /\ loops' = [loops EXCEPT ![l].stop = c]
    /\ UNCHANGED <<mono, stopChan, closed, stopOnce, handed, stopped>>
    /\ UNCHANGED <<cacheVars, fetchVars, polls, uiVars, lockVars>>

Signal(l) == SignalFrom(l, Signals)

\* The consumer takes the oldest event from Events().
Receive ==
    /\ eventChan # <<>>
    /\ eventChan' = Tail(eventChan)
    /\ last' = [op |-> "Receive", bit |-> Flip, event |-> Head(eventChan)]
    /\ emitted' = <<>>
    /\ UNCHANGED <<mono, state, stopChan, closed, stopOnce, loops, handed, observed, stopped>>
    /\ UNCHANGED <<cacheVars, fetchVars, polls, uiVars, lockVars>>

PlayerTick ==
    /\ mono < 1 + Elapse * MaxPlayerTicks
    /\ mono' = mono + Elapse
    /\ UNCHANGED <<state, eventChan, stopChan, closed, stopOnce, loops, handed, last,
                   emitted, observed, stopped>>
    /\ UNCHANGED <<cacheVars, fetchVars, polls, uiVars, lockVars>>

\* Start: makes a new stop channel and, unless adding a match fails, starts a
\* signalLoop that waits on it.
Start ==
    /\ stopChan < MaxStarts
    /\ stopChan' = stopChan + 1
    /\ \E ok \in BOOLEAN :
           /\ loops' = IF ok THEN Append(loops, [alive |-> TRUE, stop |-> stopChan + 1])
                       ELSE loops
           /\ last' = [op |-> "Start", bit |-> Flip, ok |-> ok]
    /\ stopped' = FALSE
    /\ emitted' = <<>>
    /\ UNCHANGED <<mono, state, eventChan, closed, stopOnce, handed, observed>>
    /\ UNCHANGED <<cacheVars, fetchVars, polls, uiVars, lockVars>>

\* Stop: the first call closes the stop channel there is, every later call
\* does nothing.
StopOnce ==
    IF stopOnce THEN [stopOnce |-> TRUE, closed |-> closed]
    ELSE [stopOnce |-> TRUE,
          closed |-> IF stopChan # 0 THEN closed \cup {stopChan} ELSE closed]

Stop ==
    /\ stopOnce' = StopOnce.stopOnce
    /\ closed' = StopOnce.closed
    /\ stopped' = TRUE
    /\ last' = [op |-> "Stop", bit |-> Flip, twice |-> stopChan \in closed /\ ~stopOnce]
    /\ emitted' = <<>>
    /\ UNCHANGED <<mono, state, eventChan, stopChan, loops, handed, observed>>
    /\ UNCHANGED <<cacheVars, fetchVars, polls, uiVars, lockVars>>

\* signalLoop finds the stop channel of its select closed and returns.
LoopExit(l) ==
    /\ l \in DOMAIN loops
    /\ loops[l].alive
    /\ loops[l].stop \in closed
    /\ loops' = [loops EXCEPT ![l].alive = FALSE]
    /\ UNCHANGED <<mono, state, eventChan, stopChan, closed, stopOnce, handed, last,
                   emitted, observed, stopped>>
    /\ UNCHANGED <<cacheVars, fetchVars, polls, uiVars, lockVars>>

\* GetState hands out a State of its own with a track of its own; State hands
\* out the pointer the Service keeps.
GetStateCopy == [by |-> "GetState", ref |-> FALSE, val |-> Exported(state)]

StatePointer == [by |-> "State", ref |-> TRUE, val |-> Nil]

GetState ==
    /\ handed' = GetStateCopy
    /\ last' = [op |-> "GetState", bit |-> Flip]
    /\ emitted' = <<>>
    /\ UNCHANGED <<mono, state, eventChan, stopChan, closed, stopOnce, loops, observed,
                   stopped>>
    /\ UNCHANGED <<cacheVars, fetchVars, polls, uiVars, lockVars>>

StateCall ==
    /\ handed' = StatePointer
    /\ last' = [op |-> "State", bit |-> Flip]
    /\ emitted' = <<>>
    /\ UNCHANGED <<mono, state, eventChan, stopChan, closed, stopOnce, loops, observed,
                   stopped>>
    /\ UNCHANGED <<cacheVars, fetchVars, polls, uiVars, lockVars>>

\* The caller changes the value it was handed: the position, or the title of
\* the track.
CallerPositions == {99}
CallerTitles == {"w"}

Written(s) ==
    {[s EXCEPT !.PositionSecs = p] : p \in CallerPositions}
    \cup (IF s.Track = Nil THEN {}
          ELSE {[s EXCEPT !.Track.Title = t] : t \in CallerTitles})

CallerWrite ==
    /\ handed # NothingHanded
    /\ IF handed.ref
       THEN /\ \E w \in Written(state) : state' = w
            /\ handed' = handed
       ELSE /\ \E w \in Written(handed.val) : handed' = [handed EXCEPT !.val = w]
            /\ state' = state
    /\ last' = [op |-> "CallerWrite", bit |-> Flip]
    /\ emitted' = <<>>
    /\ UNCHANGED <<mono, eventChan, stopChan, closed, stopOnce, loops, observed, stopped>>
    /\ UNCHANGED <<cacheVars, fetchVars, polls, uiVars, lockVars>>

\* The consumer of the UI takes every event as it comes: an operation finds
\* the queue empty.
ConsumerKeepsUp == eventChan = <<>>

\* Polls, and a caller that reads the state and writes to what it was handed.
NextAccess ==
    \/ ConsumerKeepsUp /\ Poll
    \/ Receive
    \/ GetState
    \/ StateCall
    \/ CallerWrite

\* Every sequence of Start and Stop calls, with a listener that handles seeks.
ListenedSignals == {SeekedSignal(10000000)}

NextListen ==
    \/ Start
    \/ Stop
    \/ \E l \in 1..MaxStarts : LoopExit(l)
    \/ \E l \in 1..MaxStarts : ConsumerKeepsUp /\ SignalFrom(l, ListenedSignals)
    \/ Receive

\* Polls that read one of two tracks, with a consumer that takes the events
\* at any pace.
QueueInfos == {Info("x", "a", "id1"), Info("y", "b", "id2")}
QueueMicros == {10000000}

NextQueue ==
    \/ PollCounted(QueueInfos, QueueMicros)
    \/ Receive

\* One Start at the start of the program, polls and signals with a consumer
\* that keeps up.
NextPoll ==
    \/ stopChan = 0 /\ Start
    \/ ConsumerKeepsUp /\ Poll
    \/ ConsumerKeepsUp /\ Signal(1)
    \/ Receive
    \/ PlayerTick

\* The Service of a program whose cache directory has a name.
InitService == InitCache /\ basePath = "lyrics"

SpecPoll == InitService /\ [][NextPoll]_vars
SpecAccess == InitService /\ [][NextAccess]_vars
SpecQueue == InitService /\ [][NextQueue]_vars

\* The scheduler runs every goroutine that can run: a signalLoop whose stop
\* channel is closed returns at some time.
SpecListen ==
    InitService /\ [][NextListen]_vars /\ \A l \in 1..MaxStarts : WF_vars(LoopExit(l))

---------------------------------------------------------------------------
(* Properties of the cache *)

FinalPaths == {q \in DOMAIN dir : q[2] = ".bin"}

SetPcs == {"set_create", "set_encode", "set_sync", "set_close", "set_rename"}

\* the step completes the rename of goroutine p
RenameCompletes(p) == pc[p] = "set_rename" /\ pc'[p] = "idle" /\ ret'[p][2].op = "Set"

\* C1: a Set interrupted at any step before its rename completes leaves the
\* final path absent or holding the complete, decodable entry it held before
\* the Set: every file at a final path decodes, and no step of a Set other
\* than the completed rename changes the file at the final path.
C1_CrashAtomicSet ==
    /\ [](\A q \in FinalPaths : ReadResult(q) = "nil")
    /\ [][\A p \in Procs :
             pc[p] \in SetPcs /\ ~RenameCompletes(p) =>
                 Snapshot(dir', getFilePath(lv[p].key)) = Snapshot(dir, getFilePath(lv[p].key))]_vars

\* a Set was interrupted halfway through its write, over an earlier entry
C1_Witness ==
    /\ ret[1][2].op = "Crash"
    /\ \E q \in FinalPaths :
          /\ ReadResult(q) = "nil"
          /\ Exists(tmpPathOf(q))
          /\ Len(ContentAt(tmpPathOf(q))) = 1

IoErrors == {"io error"}

\* C2: with two Sets of one key running concurrently, the final path is at
\* every moment absent or one complete entry, and once both have returned
\* (no I/O error injected) it holds the complete entry of one of the writers.
C2_ConcurrentSetAtomic ==
    /\ \A q \in FinalPaths : GobDecodable(ContentAt(q))
    /\ (/\ basePath # ""
        /\ \A p \in Procs :
              pc[p] = "idle" /\ ret[p][2].op = "Set" /\ ret[p][2].err \notin IoErrors)
          => /\ Exists(getFilePath(generateKey(SharedArtist, SharedTitle)))
             /\ ReadResult(getFilePath(generateKey(SharedArtist, SharedTitle))) = "nil"
             /\ \E p \in Procs :
                   PayloadOf(GobDecode(ContentAt(getFilePath(generateKey(SharedArtist, SharedTitle)))))
                       = PayloadOf(WriterEntry(p))

\* C3: Get never returns an entry that is expired at the time it returns, and
\* a Get that came upon an expired entry returns no entry and leaves the key
\* in neither the memory tier nor the file tier.
C3_GetNeverExpired ==
    LET r == ret[1][2] IN
    (pc[1] = "idle" /\ r.op = "Get") =>
        /\ r.err = "nil" => r.val # Nil /\ r.val.ExpiresAt > now
        /\ r.met => /\ r.err # "nil"
                    /\ generateKey(r.artist, r.title) \notin DOMAIN memCache
                    /\ ~Exists(getFilePath(generateKey(r.artist, r.title)))

\* the entry was expired in both tiers when Get came upon it
C3_Witness ==
    LET r == ret[1][2] IN
    /\ pc[1] = "idle" /\ r.op = "Get" /\ r.met /\ r.err = "cache expired"
    /\ basePath # ""

\* C4: Set(artist, title, e) with valid arguments directly followed by
\* Get(artist, title) returns e with the stamps of the Set.
C4_RoundTrip ==
    LET s == ret[1][1]
        g == ret[1][2]
    IN
    (s.op = "Set" /\ s.err # "invalid cache entry" /\ g.op = "Get"
        /\ g.artist = s.artist /\ g.title = s.title)
    => /\ g.err = "nil"
       /\ PayloadOf(g.val) = PayloadOf(s.val)
       /\ g.val.Version = cacheVersion
       /\ g.val.CreatedAt = now
       /\ g.val.ExpiresAt = now + TTL

C4_Witness ==
    LET s == ret[1][1]
        g == ret[1][2]
    IN
    /\ s.op = "Set" /\ s.err = "nil" /\ g.op = "Get" /\ g.err = "nil"
    /\ g.artist = s.artist /\ g.title = s.title
    /\ g.val.SyncOffset = 2
    /\ basePath # ""

---------------------------------------------------------------------------
(* Properties of Fetch *)

TrackKey == generateKey(track.Artist, track.Title)

\* neither tier of the cache holds an entry for the track being resolved
NoEntryForTrack == TrackKey \notin DOMAIN memCache /\ ~Exists(getFilePath(TrackKey))

\* the answers in which the request ran out of time
DeadlineReplies == {Failed(DeadlineError), Failed(DialError)}

FetchLoopPcs == {"fetch_query", "fetch_delay", "fetch_request", "fetch_wait"}

\* C5: once a request has run into its deadline, Fetch has returned the
\* "too slow" error, no request was issued after the one that timed out, and
\* the cache holds nothing for the track; so a remote that always times out
\* sees exactly one request.
C5_TimeoutShortCircuit ==
    (lastReply.n > 0 /\ lastReply.reply \in DeadlineReplies) =>
        /\ fres = [op |-> "Fetch", payload |-> Nil,
                   err |-> [kind |-> "lyrics server took too long to respond"]]
        /\ Len(requests) = lastReply.n
        /\ NoEntryForTrack

\* the first of eight candidates timed out
C5_Witness ==
    /\ lastReply.n = 1
    /\ lastReply.reply = Failed(DeadlineError)
    /\ Len(strategies) = 8
    /\ Len(requests) = 1
    /\ fres.op = "Fetch"

\* C6: once a response with plain lyrics, synced lyrics or the instrumental
\* flag has arrived, no further request is issued, the payload is stored
\* under the original artist and title and returned, and a Get of the
\* original artist and title that directly follows hits with that payload.
C6_FirstAcceptedReturned ==
    (/\ lastReply.n > 0
     /\ lastReply.reply.transport = NoError
     /\ lastReply.reply.code = 200
     /\ lastReply.reply.json # Nil
     /\ \/ lastReply.reply.json.PlainLyrics # ""
        \/ lastReply.reply.json.SyncedLyrics # ""
        \/ lastReply.reply.json.Instrumental)
    => /\ Len(requests) = lastReply.n
       /\ pc[1] \notin FetchLoopPcs
       /\ pc[1] = "idle" => fres = [op |-> "Fetch", payload |-> lastReply.reply.json,
                                     err |-> [kind |-> "nil"]]
       /\ pc[1] = "fetch_stored" =>
             /\ ret[1][2].op = "Set"
             /\ ret[1][2].artist = track.Artist /\ ret[1][2].title = track.Title
             /\ PayloadOf(ret[1][2].val) = lastReply.reply.json
             /\ TrackKey \in DOMAIN memCache
             /\ PayloadOf(memCache[TrackKey]) = lastReply.reply.json
       /\ (/\ pc[1] = "idle" /\ ret[1][1].op = "Set" /\ ret[1][2].op = "Get"
           /\ PayloadOf(ret[1][1].val) = lastReply.reply.json) =>
             /\ ret[1][2].artist = track.Artist /\ ret[1][2].title = track.Title
             /\ ret[1][2].err = "nil"
             /\ PayloadOf(ret[1][2].val) = lastReply.reply.json

\* seven candidates answered without lyrics, the eighth with synced lyrics,
\* and the Get that followed the resolution hit
C6_Witness ==
    /\ lastReply.n = 8
    /\ lastReply.reply = Json(SyncedPayload)
    /\ lastErr = NoLyricsError
    /\ track.Artist # normalizeString(track.Artist)
    /\ pc[1] = "idle"
    /\ fres.op = "Fetch" /\ fres.payload = SyncedPayload
    /\ ret[1][1].op = "Set" /\ ret[1][2].op = "Get" /\ ret[1][2].err = "nil"

\* C7: no two requests issued in one resolution are identical, and at most
\* eight requests are issued.
C7_NoIdenticalRequests ==
    /\ Len(requests) <= 8
    /\ \A i, j \in 1..Len(requests) : i < j => requests[i] # requests[j]

\* C8: every request carries exactly the parameters of its own candidate:
\* its artist_name and track_name, album_name iff its album is non-empty,
\* duration iff its duration is positive.
C8_OwnParameters ==
    \A i \in 1..Len(requests) :
        LET q == QueryParse(requests[i])
            strategy == strategies[i]
        IN
        /\ DOMAIN q = {"artist_name", "track_name"}
                        \cup (IF strategy.album # <<>> THEN {"album_name"} ELSE {})
                        \cup (IF strategy.duration > 0 THEN {"duration"} ELSE {})
        /\ q["artist_name"] = strategy.artist
        /\ q["track_name"] = strategy.title
        /\ strategy.album # <<>> => q["album_name"] = strategy.album
        /\ strategy.duration > 0 => q["duration"] = <<ToString(strategy.duration)>>

\* C9: after a request has failed with a non-success status (whatever its
\* body) or a malformed body, and while the caller has not cancelled, the
\* error is the last error, and the resolution
\* goes on with the next candidate if there is one (it ends as not found only
\* after the last one).
C9_OtherFailuresContinue ==
    (/\ lastReply.n > 0
     /\ ~ctx.done
     /\ lastReply.reply.transport = NoError
     /\ lastReply.reply.code # 200 \/ lastReply.reply.json = Nil)
    => /\ lastErr = doFetchRequest(lastReply.reply).err
       /\ IF lastReply.n < Len(strategies)
          THEN pc[1] \in FetchLoopPcs /\ idx = lastReply.n + 1
          ELSE fres.op = "Fetch" /\ fres.err.kind = "no lyrics found for"

\* C10: when the last unique candidate has been answered, the caller has not
\* cancelled, and the answer was neither accepted nor a timeout, Fetch has
\* returned the not-found error
\* naming the original artist and title and wrapping the error of that last
\* candidate, and the cache holds no entry for the track.
C10_Exhaustion ==
    (/\ lastReply.n > 0
     /\ ~ctx.done
     /\ lastReply.n = Len(strategies)
     /\ lastReply.reply \notin DeadlineReplies
     /\ ~(/\ lastReply.reply.transport = NoError
          /\ lastReply.reply.code = 200
          /\ lastReply.reply.json # Nil
          /\ \/ lastReply.reply.json.PlainLyrics # ""
             \/ lastReply.reply.json.SyncedLyrics # ""
             \/ lastReply.reply.json.Instrumental))
    => /\ fres.op = "Fetch"
       /\ fres.payload = Nil
       /\ fres.err.kind = "no lyrics found for"
       /\ fres.err.artist = track.Artist
       /\ fres.err.title = track.Title
       /\ fres.err.wraps = lastErr
       /\ lastErr = IF doFetchRequest(lastReply.reply).err = NoError THEN NoLyricsError
                    ELSE doFetchRequest(lastReply.reply).err
       /\ NoEntryForTrack

Blank(s) == \A i \in 1..Len(s) : s[i] = " "

FetchPcs == FetchLoopPcs \cup {"fetch_cached", "fetch_stored"}

\* C12: a Fetch whose title or artist is empty or blank returns a validation
\* error with no payload, sends no request and never enters the lookup or
\* the loop; the step of the call leaves the cache, and the cache
\* operations' state, as they were.
C12_Validation ==
    /\ []((fetches > 0 /\ (Blank(track.Title) \/ Blank(track.Artist))) =>
              /\ fres.op = "Fetch"
              /\ fres.payload = Nil
              /\ fres.err.kind \in {"track title or artist is empty",
                                    "track title or artist is empty after normalization"}
              /\ requests = <<>>
              /\ pc[1] \notin FetchPcs)
    /\ [][(fetches' = fetches + 1 /\ (Blank(track'.Title) \/ Blank(track'.Artist))) =>
             UNCHANGED <<memCache, dir, pc, lv, ret>>]_vars

\* a blank artist was rejected while the cache held an entry
C12_Witness ==
    /\ fres.op = "Fetch"
    /\ fres.err.kind = "track title or artist is empty after normalization"
    /\ track.Artist = <<" ">>
    /\ memCache # <<>>

\* C13: when the Set of an accepted payload has failed, Fetch returns that
\* payload with no error.
C13_PersistFailureSwallowed ==
    (/\ fres.op = "Fetch"
     /\ lastReply.n > 0
     /\ lastReply.reply.json # Nil
     /\ ret[1][2].op = "Set"
     /\ ret[1][2].err # "nil"
     /\ PayloadOf(ret[1][2].val) = lastReply.reply.json)
    => fres = [op |-> "Fetch", payload |-> lastReply.reply.json, err |-> [kind |-> "nil"]]

\* the write of the accepted payload failed and nothing is on disk
C13_Witness ==
    /\ fres.op = "Fetch"
    /\ lastReply.n > 0
    /\ lastReply.reply = Json(SyncedPayload)
    /\ ret[1][2].op = "Set"
    /\ ret[1][2].err = "io error"
    /\ fres.payload = SyncedPayload
    /\ ~Exists(getFilePath(TrackKey))

\* C14: once the context is cancelled while Fetch is in its loop (waiting for
\* an answer, or pausing before the next candidate), no request is added to
\* those sent before the cancel, nothing is stored for the track, and what
\* Fetch returns is an error without a payload.
C14_Cancellation ==
    ctx.done =>
        /\ Len(requests) = ctx.n
        /\ NoEntryForTrack
        /\ pc[1] # "fetch_stored"
        /\ fres.op = "Fetch" => fres.payload = Nil /\ fres.err.kind # "nil"

\* cancelled during a request that was not the last: Fetch gave up in the
\* pause before the next candidate
C14_Witness ==
    /\ ctx.done
    /\ ctx.at = "fetch_wait"
    /\ ctx.n = 2
    /\ Len(strategies) > 2
    /\ fres.op = "Fetch"
    /\ fres.err = FetchCanceled

---------------------------------------------------------------------------
(* Properties of the player Service *)

\* The step is a call of the operation op.
Called(op) == last'.bit # last.bit /\ last'.op = op

\* Two tracks are the same track: both ids are set and equal, otherwise the
\* titles and the artists are equal.  No track is stored before the first one.
Identity(a, stored) ==
    /\ stored # Nil
    /\ IF a.TrackID # "" /\ stored.TrackID # "" THEN a.TrackID = stored.TrackID
       ELSE a.Title = stored.Title /\ a.Artist = stored.Artist

TrackChangedIn(events) == {i \in DOMAIN events : events[i].Type = EventTrackChanged}

\* C15: a successful Poll emits a TrackChanged event if and only if the track
\* it read is not the stored track; it then stores the track it read, takes the
\* position it read as the baseline, and emits nothing but one TrackChanged
\* event carrying that track; otherwise the stored track stays.
C15_PollTrackChanged ==
    [][(Called("Poll") /\ last'.ok) =>
          LET trk == last'.trk
              pos == last'.pos
              changed == ~Identity(trk, state.Track)
          IN  /\ (TrackChangedIn(emitted') # {}) <=> changed
              /\ changed =>
                     /\ state'.Track = trk
                     /\ state'.lastPositionSecs = pos
                     /\ state'.lastPositionUpdate = mono
                     /\ emitted' = <<[Type |-> EventTrackChanged, Track |-> trk,
                                      Position |-> pos, Playing |-> FALSE]>>
              /\ ~changed => state'.Track = state.Track]_vars

\* A Poll read a track with the id of no stored track, stored it and queued
\* one TrackChanged event for it.
C15_Witness ==
    /\ last.op = "Poll"
    /\ last.ok
    /\ last.trk = Info("z", "a", "id1")
    /\ state.Track = last.trk
    /\ state.lastPositionSecs = last.pos
    /\ emitted = <<EventData(EventTrackChanged, last.trk, last.pos, FALSE)>>
    /\ eventChan = emitted

SeekedIn(events, pos) ==
    {i \in DOMAIN events : events[i].Type = EventSeeked /\ events[i].Position = pos}

\* C16: a Poll that reads the stored track emits a Seeked event with the
\* position it read if and only if that position differs by more than 3 from
\* the position last read from the player plus the whole seconds that passed
\* since that reading.
C16_SeekHeuristic ==
    [][(Called("Poll") /\ last'.ok /\ Identity(last'.trk, state.Track)
            /\ observed # NoObservation) =>
          LET pos == last'.pos
              expected == observed.pos + (mono - observed.at) \div HalfSecondsPerSecond
          IN  (SeekedIn(emitted', pos) # {}) <=> Abs(pos - expected) > seekTolerance]_vars

\* The step is the handling of a property change of the player interface that
\* carries a valid Metadata entry.
MetadataPushed ==
    /\ Called("Signal")
    /\ last'.sig.Name = "PropertiesChanged"
    /\ last'.sig.iface = mprisPlayerIface
    /\ last'.sig.Metadata # Absent
    /\ last'.sig.Metadata # Malformed
    /\ IsValid(last'.sig.Metadata)

TracksChangedTo(events) == [i \in TrackChangedIn(events) |-> events[i].Track]

\* C17: the handler of a Metadata notification replaces the stored track and
\* emits TrackChanged only when the notified track is not the stored track,
\* else it leaves the stored track and emits no TrackChanged; it leaves the
\* stored track and emits the TrackChanged events that Poll would, reading the
\* same track in the same state.
C17_PushLikePoll ==
    [][MetadataPushed =>
          LET info == last'.sig.Metadata
              polled == PollOn(state, info, state.PositionSecs, mono)
          IN  /\ IF Identity(info, state.Track)
                 THEN state'.Track = state.Track /\ TrackChangedIn(emitted') = {}
                 ELSE state'.Track = info /\ TrackChangedIn(emitted') # {}
              /\ state'.Track = polled.state.Track
              /\ TracksChangedTo(emitted') = TracksChangedTo(polled.events)]_vars

\* C18: a write of a caller to a value that GetState or State handed out
\* leaves the State of the Service as it is, and a Poll leaves every value
\* handed out before as the caller last saw it.
C18_ReadersGetCopies ==
    [][/\ Called("CallerWrite") => Exported(state') = Exported(state)
       /\ (Called("Poll") /\ handed # NothingHanded) => View(handed)' = View(handed)]_vars

NoLoopRuns == \A l \in DOMAIN loops : ~loops[l].alive

\* C19: no Stop call closes a channel that is closed already, and whenever a
\* Stop call has returned and no Start was called since, every signalLoop
\* eventually has returned.
C19_StopTerminates ==
    /\ [](last.op = "Stop" => ~last.twice)
    /\ [](stopped => <>(NoLoopRuns \/ ~stopped))

\* C20: the queue never holds more than 16 events; a Poll that emits an event
\* when 16 are queued leaves the queue as it is, and one that emits an event
\* when fewer are queued puts it behind the queued ones; the consumer receives
\* the oldest queued event, and the others stay in their order.
C20_BoundedQueue ==
    /\ [](Len(eventChan) <= 16)
    /\ [][Called("Poll") =>
             /\ Len(emitted') <= 1
             /\ emitted' = <<>> => eventChan' = eventChan
             /\ emitted' # <<>> =>
                    eventChan' = IF Len(eventChan) = 16 THEN eventChan
                                 ELSE eventChan \o emitted']_vars
    /\ [][Called("Receive") =>
             /\ eventChan # <<>>
             /\ last'.event = Head(eventChan)
             /\ eventChan' = Tail(eventChan)]_vars

\* A Poll emitted an event when 16 were queued, and the queue does not hold it.
C20_Witness ==
    /\ last.op = "Poll"
    /\ Len(emitted) = 1
    /\ Len(eventChan) = 16
    /\ eventChan[16] # emitted[1]
    /\ eventChan[1] # eventChan[2]

\* The operation before this step was a Poll that could not read the track or
\* the position, or read a track without a title or an artist.
PollFailed(l) == l.op = "Poll" /\ (l.read # "ok" \/ ~l.named)

\* C21: a Poll that cannot read the track or the position, or reads a track
\* without a title or an artist, returns an error, leaves the State and the
\* queue as they are and emits nothing; a successful Poll that follows it
\* stores the position it read and holds the track it read.
C21_PollFailure ==
    [][/\ (Called("Poll") /\ PollFailed(last')) =>
              /\ ~last'.ok
              /\ state' = state
              /\ emitted' = <<>>
              /\ eventChan' = eventChan
       /\ (Called("Poll") /\ PollFailed(last) /\ ~PollFailed(last')) =>
              /\ last'.ok
              /\ state'.PositionSecs = last'.pos
              /\ state'.lastPositionSecs = last'.pos
              /\ Identity(last'.trk, state'.Track)]_vars

\* A Poll failed to read the position after a track was stored and the clock
\* advanced: the track and the baseline are the old ones.
C21_Witness ==
    /\ last.op = "Poll"
    /\ last.read = "no position"
    /\ ~last.ok
    /\ state.Track # Nil
    /\ state.lastPositionUpdate # 0
    /\ state.lastPositionUpdate < mono
    /\ emitted = <<>>

---------------------------------------------------------------------------
(* Properties of the cache with damaged files, and of its keys *)

LastKey == generateKey(ret[1][2].artist, ret[1][2].title)

\* C22: when Get has reported a corrupt cache, the file of its key is gone.
C22_CorruptDeleted ==
    (pc[1] = "idle" /\ ret[1][2].op = "Get" /\ ret[1][2].err = "cache corrupt")
        => ~Exists(getFilePath(LastKey))

\* the errors of the cache that are no I/O errors
PlainErrors == {"nil", "cache miss", "invalid cache entry", "invalid artist or title"}

\* C23: a cache without a directory holds no file and returns no I/O error: a
\* Set with valid arguments succeeds and the Get that follows it on the same
\* artist and title returns its entry, Get succeeds exactly on the keys the
\* memory tier holds and else reports a miss, Delete with valid arguments and
\* Clear succeed, Prune returns 0, Stats (0, 0) and ListAll nothing.
C23_DegradedMode ==
    LET a == ret[1][1]
        r == ret[1][2]
        valid == r.artist # <<>> /\ r.title # <<>>
    IN  basePath = "" =>
            /\ dir = <<>>
            /\ r.op \in {"Get", "Set", "Delete", "Clear", "Prune", "Stats", "ListAll"}
                   => r.err \in PlainErrors
            /\ (r.op = "Set" /\ valid /\ r.val # Nil) => r.err = "nil"
            /\ (a.op = "Set" /\ a.err = "nil" /\ r.op = "Get" /\ r.artist = a.artist
                    /\ r.title = a.title) => r.err = "nil" /\ r.val = a.val
            /\ (pc[1] = "idle" /\ r.op = "Get") =>
                   IF valid /\ LastKey \in DOMAIN memCache
                   THEN r.err = "nil" /\ r.val = memCache[LastKey]
                   ELSE r.err = "cache miss" /\ r.val = Nil
            /\ (r.op = "Delete" /\ valid) => r.err = "nil"
            /\ r.op = "Clear" => r.err = "nil" /\ memCache = <<>>
            /\ r.op = "Prune" => r.err = "nil" /\ r.val = 0
            /\ r.op = "Stats" => r.err = "nil" /\ r.val = <<0, 0>>
            /\ r.op = "ListAll" => r.err = "nil" /\ r.val = <<>>

\* Without a directory, a Get returned the entry of the Set before it.
C23_Witness ==
    /\ basePath = ""
    /\ ret[1][1].op = "Set"
    /\ ret[1][2].op = "Get"
    /\ ret[1][2].err = "nil"
    /\ ret[1][2].val.SyncOffset = 2
    /\ LastKey \in DOMAIN memCache

\* The step is a call of op that returns at once.
Returned(op) == pc[1] = "idle" /\ pc'[1] = "idle" /\ ret'[1][2].op = op

\* C24: a Delete with a non-empty artist and title returns no error, whether
\* a file was there or not, and leaves its key in neither tier; a Get of the
\* key directly after it reports a miss; the Delete leaves the entries and the
\* files of all other keys as they were.
C24_Delete ==
    /\ [](LET a == ret[1][1]
              r == ret[1][2]
          IN  /\ (pc[1] = "idle" /\ r.op = "Delete"
                      /\ r.artist # <<>> /\ r.title # <<>>) =>
                     /\ r.err = "nil"
                     /\ LastKey \notin DOMAIN memCache
                     /\ basePath # "" => ~Exists(getFilePath(LastKey))
              /\ (pc[1] = "idle" /\ a.op = "Delete" /\ a.err = "nil"
                      /\ r.op = "Get"
                      /\ generateKey(a.artist, a.title) = LastKey) =>
                     r.err = "cache miss" /\ r.val = Nil)
    /\ [][(Returned("Delete") /\ ret'[1][2].err = "nil") =>
             LET key == generateKey(ret'[1][2].artist, ret'[1][2].title)
             IN  /\ \A k \in DOMAIN memCache \ {key} :
                        k \in DOMAIN memCache' /\ memCache'[k] = memCache[k]
                 /\ DOMAIN memCache' \subseteq DOMAIN memCache
                 /\ \A q \in DOMAIN dir \ {getFilePath(key)} :
                        q \in DOMAIN dir' /\ dir'[q] = dir[q]
                 /\ DOMAIN dir' \subseteq DOMAIN dir]_vars

\* A Get after the Delete of a key that was in both tiers reports a miss, and
\* the other key is still in both tiers.
C24_Witness ==
    /\ pc[1] = "idle"
    /\ ret[1][1].op = "Delete"
    /\ ret[1][1].artist = <<"a">>
    /\ ret[1][2].op = "Get"
    /\ ret[1][2].err = "cache miss"
    /\ ret[1][2].artist = <<"a">>
    /\ generateKey(<<"b">>, <<"x">>) \in DOMAIN memCache
    /\ Exists(getFilePath(generateKey(<<"b">>, <<"x">>)))

\* A persisted entry is well formed and unexpired at time t.
Sound(c, t) ==
    /\ GobDecodable(c)
    /\ GobDecode(c).Version = cacheVersion
    /\ GobDecode(c).ExpiresAt > t

\* C25: Prune returns no error and the number of entries it removed; it
\* removes exactly the persisted entries that do not decode, carry another
\* version or are expired, and changes nothing else, so that every persisted
\* entry left after it decodes, has the current version and is unexpired.
C25_Prune ==
    [][Returned("Prune") =>
          LET bad == {q \in BinPaths : ~Sound(dir[q], now)}
          IN  /\ ret'[1][2].err = "nil"
              /\ ret'[1][2].val = Cardinality(bad)
              /\ DOMAIN dir' = DOMAIN dir \ bad
              /\ \A q \in DOMAIN dir' : dir'[q] = dir[q]
              /\ \A q \in DOMAIN dir' : q[2] = ".bin" => Sound(dir'[q], now')
              /\ memCache' = memCache]_vars

\* Prune has just removed one of two persisted entries and kept the other.
C25_Witness ==
    /\ pc[1] = "idle"
    /\ ret[1][2].op = "Prune"
    /\ ret[1][2].val = 1
    /\ Cardinality(BinPaths) = 1
    /\ \A q \in BinPaths : Sound(dir[q], now)

\* C26: Clear returns no error and leaves the memory tier empty and no
\* persisted entry, whatever was stored before it; directly after it a Get
\* reports a miss, Stats reports zero entries and ListAll returns nothing.
C26_Clear ==
    /\ [](LET a == ret[1][1]
              r == ret[1][2]
          IN  pc[1] = "idle" =>
                /\ r.op = "Clear" =>
                       /\ r.err = "nil"
                       /\ memCache = <<>>
                       /\ \A q \in DOMAIN dir : q[2] # ".bin"
                /\ (a.op = "Clear" /\ r.op = "Get"
                        /\ r.artist # <<>> /\ r.title # <<>>) =>
                       r.err = "cache miss" /\ r.val = Nil
                /\ (a.op = "Clear" /\ r.op = "Stats") =>
                       r.err = "nil" /\ r.val = <<0, 0>>
                /\ (a.op = "Clear" /\ r.op = "ListAll") =>
                       r.err = "nil" /\ r.val = <<>>)
    /\ [][Returned("Clear") =>
             /\ DOMAIN memCache' = {}
             /\ \A q \in DOMAIN dir : q[2] = ".bin" => q \notin DOMAIN dir'
             /\ \A q \in DOMAIN dir : q[2] # ".bin" => q \in DOMAIN dir' /\ dir'[q] = dir[q]]_vars

\* A Get directly after a Clear reports a miss while the cache has a
\* directory.
C26_Witness ==
    /\ pc[1] = "idle"
    /\ basePath # ""
    /\ ret[1][1].op = "Clear"
    /\ ret[1][2].op = "Get"
    /\ ret[1][2].artist = <<"b">>
    /\ ret[1][2].err = "cache miss"

---------------------------------------------------------------------------
(* The cache under artists and titles that differ in case or contain the
   separator of the key *)

KeyArtists == {<<"a">>, <<"A">>, <<"a", "|", "x">>}
KeyTitles == {<<"x">>, <<"X">>, <<"x", "|", "x">>}

\* the name of the song with this artist and title, whatever their case
SongOf(artist, title) ==
    CASE ToLower(artist) = <<"a">> /\ ToLower(title) = <<"x">> -> "x by a"
      [] ToLower(artist) = <<"a">> /\ ToLower(title) # <<"x">> -> "x|x by a"
      [] ToLower(artist) # <<"a">> /\ ToLower(title) = <<"x">> -> "x by a|x"
      [] OTHER -> "x|x by a|x"

\* the entry a caller stores for a track carries the name of its song
SongEntry(artist, title) == NewEntry(Payload(SongOf(artist, title), "Hello", "", FALSE, 0))

NextKeys ==
    \/ GetFrom(1, KeyArtists, KeyTitles)
    \/ GetDisk(1) \/ GetExpiry(1) \/ GetPromote(1)
    \/ \E artist \in KeyArtists, title \in KeyTitles :
           SetFrom(1, {artist}, {title}, {SongEntry(artist, title)})
    \/ SetCreate(1) \/ SetEncode(1) \/ SetSync(1) \/ SetClose(1) \/ SetRename(1)
    \/ Restart

SpecKeys == InitCache /\ [][NextKeys]_vars

SamePair(a1, t1, a2, t2) == ToLower(a1) = ToLower(a2) /\ ToLower(t1) = ToLower(t2)

\* C27: two pairs that are equal after lower-casing both components have the
\* same key, and a Get directly after a successful Set of such a pair returns
\* the entry that was set.
C27_CaseIndependent ==
    /\ \A a1 \in KeyArtists, a2 \in KeyArtists, t1 \in KeyTitles, t2 \in KeyTitles :
           SamePair(a1, t1, a2, t2) => generateKey(a1, t1) = generateKey(a2, t2)
    /\ LET a == ret[1][1]
           r == ret[1][2]
       IN  (pc[1] = "idle" /\ a.op = "Set" /\ a.err = "nil" /\ r.op = "Get"
                /\ SamePair(a.artist, a.title, r.artist, r.title)) =>
               r.err = "nil" /\ r.val = a.val

\* An entry set as ("a", "x") was returned by the Get of ("A", "X").
C27_Witness ==
    /\ pc[1] = "idle"
    /\ ret[1][1].op = "Set"
    /\ ret[1][1].artist = <<"a">>
    /\ ret[1][1].title = <<"x">>
    /\ ret[1][2].op = "Get"
    /\ ret[1][2].artist = <<"A">>
    /\ ret[1][2].title = <<"X">>
    /\ ret[1][2].err = "nil"
    /\ ret[1][2].val.TrackName = "x by a"

\* C28: a Set and the Get after it that name pairs which differ after
\* lower-casing use different keys, and the entry a Get returns is one that
\* was stored for the lower-cased pair the Get names.
C28_CollisionFree ==
    LET a == ret[1][1]
        r == ret[1][2]
    IN  pc[1] = "idle" =>
          /\ (a.op = "Set" /\ a.err = "nil" /\ r.op = "Get"
                  /\ ~SamePair(a.artist, a.title, r.artist, r.title)) =>
                 generateKey(a.artist, a.title) # generateKey(r.artist, r.title)
          /\ (r.op = "Get" /\ r.err = "nil") =>
                 r.val.TrackName = SongOf(r.artist, r.title)

---------------------------------------------------------------------------
(* The interface (package ui): the track it displays, its sync offset and
   the lyrics commands it sends.  Offsets are counted in tenths of a second.
   The messages are handled one at a time; a key is pressed and the track
   changes while no lyrics command is out. *)

MaxOffset == 5                      \* the sync offset stays within this many tenths

UITrack(artist) == [Artist |-> artist, Title |-> <<"x">>, Album |-> <<>>, DurationSecs |-> 0]
UITracks == {UITrack(<<"a">>), UITrack(<<"b">>)}
UIReplies == {Json(SyncedPayload), Status(404, <<>>)}

\* "up", "k", "+", "=": +0.1; "down", "j", "-": -0.1; "left", "h": -0.5;
\* "right", "l": +0.5
KeySteps == {1, -1, -5, 5}

Handled(msg) == [msg |-> msg]

\* handlePlayerEvent with EventTrackChanged: handleTrackChange displays the
\* track, resetForNewTrack drops the lines, fetchLyricsCmd is sent
handleTrackChange ==
    /\ ~model.loadingLyrics
    /\ \E t \in UITracks :
          /\ FetchFrom({t})
          /\ model' = [model EXCEPT !.Track = t, !.Lines = FALSE, !.loadingLyrics = TRUE,
                                    !.handled = Handled("TrackChanged")]
    /\ UNCHANGED <<display, cmds, found, lockVars>>

restoresAlways(offset) == TRUE

\* msg.SyncOffset != 0: the offset of the message replaces the one of the
\* interface
restores(offset) == offset # 0

\* the LyricsFetchedMsg fetchLyricsCmd makes of what Fetch returned, and
\* handleLyricsFetched
handleLyricsFetched ==
    /\ model.loadingLyrics
    /\ pc[1] = "idle"
    /\ fres.op = "Fetch"
    /\ LET failed == fres.err # FetchNil \/ fres.payload.SyncedLyrics = ""
       IN  model' = [model EXCEPT
                        !.loadingLyrics = FALSE,
                        !.Lines = ~failed,
                        !.syncOffset = IF ~failed /\ restores(fres.payload.SyncOffset)
                                       THEN fres.payload.SyncOffset ELSE @,
                        !.handled = [msg |-> "LyricsFetched", loaded |-> ~failed]]
    /\ UNCHANGED <<cacheVars, fetchVars, playerVars>>
    /\ UNCHANGED <<display, cmds, found, lockVars>>

\* handleKeyPress for the keys of the sync offset, up to the Get of
\* saveSyncOffset
handleKeyPress ==
    /\ pc[1] = "idle"
    /\ ~model.loadingLyrics
    /\ \E o \in {model.syncOffset + d : d \in KeySteps} \cup {0} :
          /\ o \in (-MaxOffset)..MaxOffset
          /\ model' = [model EXCEPT !.syncOffset = o, !.handled = Handled("Key")]
          /\ IF model.Track = NoTrack
             THEN UNCHANGED <<memCache, dir, pc, lv, ret>>
             ELSE GetBegin(1, "ui_cached", model.Track.Artist, model.Track.Title)
    /\ UNCHANGED <<now, ticks, basePath>>
    /\ UNCHANGED <<fetchVars, playerVars>>
    /\ UNCHANGED <<display, cmds, found, lockVars>>

\* saveSyncOffset after its Get: nothing without an entry, else the offset
\* is set in the entry and the entry is stored
saveSyncOffset ==
    /\ pc[1] = "ui_cached"
    /\ LET cached == ret[1][2] IN
       IF cached.err # "nil"
       THEN /\ pc' = [pc EXCEPT ![1] = "idle"]
            /\ UNCHANGED <<memCache, lv, ret>>
       ELSE SetBegin(1, "idle", model.Track.Artist, model.Track.Title,
                     [cached.val EXCEPT !.SyncOffset = model.syncOffset])
    /\ UNCHANGED <<now, ticks, basePath, dir>>
    /\ UNCHANGED <<fetchVars, playerVars, uiVars, lockVars>>

NextUI ==
    \/ handleTrackChange \/ handleLyricsFetched \/ handleKeyPress \/ saveSyncOffset
    \/ FetchCached \/ FetchQuery \/ FetchDelay \/ FetchRequest
    \/ FetchReplyFrom(UIReplies) \/ FetchStored
    \/ GetDisk(1)
    \/ SetCreate(1) \/ SetEncode(1) \/ SetSync(1) \/ SetClose(1) \/ SetRename(1)
    \/ TickFrom({1})

SpecUI == InitCache /\ [][NextUI]_vars

---------------------------------------------------------------------------
(* Properties of the stamps and of the sync offset *)

Stamped(e) == e.ExpiresAt = e.CreatedAt + 30 * 24 * 60 * 60 /\ e.Version = 1

SavedEntry == HeldEntry(model.Track.Artist, model.Track.Title)

\* C30: once a key press is handled while the track on display has an entry,
\* the entry carries the sync offset of the interface; and once lyrics are
\* loaded for a track that has an entry, the sync offset of the interface is
\* the one of the entry.
C30_OffsetPerSong ==
    (pc[1] = "idle" /\ model.Track # NoTrack /\ SavedEntry # Nil) =>
        /\ model.handled = Handled("Key") => SavedEntry.SyncOffset = model.syncOffset
        /\ model.handled = [msg |-> "LyricsFetched", loaded |-> TRUE] =>
               model.syncOffset = SavedEntry.SyncOffset

---------------------------------------------------------------------------
(* Lyric lines (package lyrics): times and positions are counted in tenths
   of a second *)

TimedLine(t, text) == [TimeSeconds |-> t, Text |-> text]

Before(t, position) == t < position

\* line.TimeSeconds <= positionSeconds
AtOrBefore(t, position) == t <= position

\* the loop of FindCurrentLineIndex from the i-th line on, with the index
\* found so far; indices count from 0
RECURSIVE scanLines(_, _, _, _)
scanLines(lines, position, i, index) ==
    IF i > Len(lines) THEN index
    ELSE IF AtOrBefore(lines[i].TimeSeconds, position)
    THEN scanLines(lines, position, i + 1, i - 1)
    ELSE index

FindCurrentLineIndex(lines, position) ==
    IF Len(lines) = 0 THEN -1 ELSE scanLines(lines, position, 1, -1)

MaxLines == 3
LineTimes == {15, 30, 45}
FindPositions == {5, 15, 20, 30, 100}

RECURSIVE SeqsUpTo(_, _)
SeqsUpTo(S, n) ==
    IF n = 0 THEN {<<>>}
    ELSE LET shorter == SeqsUpTo(S, n - 1)
         IN  shorter \cup {Append(q, x) : q \in shorter, x \in S}

\* lines in any order, chronological or not
FindLines == SeqsUpTo({TimedLine(t, "la") : t \in LineTimes}, MaxLines)

Find ==
    /\ \E lines \in FindLines, position \in FindPositions :
           found' = [op |-> "FindCurrentLineIndex", lines |-> lines, position |-> position,
                     index |-> FindCurrentLineIndex(lines, position)]
    /\ UNCHANGED <<cacheVars, fetchVars, playerVars, lockVars>>
    /\ UNCHANGED <<model, display, cmds>>

SpecFind == InitService /\ [][Find]_vars

Chronological(lines) ==
    \A i \in 1..Len(lines), j \in 1..Len(lines) :
        i < j => lines[i].TimeSeconds <= lines[j].TimeSeconds

\* C31: for lines in chronological order FindCurrentLineIndex returns the
\* index of the last line whose time is at or before the position, -1 when
\* there is none; for lines at 1.5 and 3.0 it returns 0 at 2.0, -1 at 0.5 and
\* 1 at 10.0.
C31_FindCurrentLine ==
    (found.op = "FindCurrentLineIndex" /\ Chronological(found.lines)) =>
        LET reached == {i \in 1..Len(found.lines) :
                            found.lines[i].TimeSeconds <= found.position}
        IN  /\ reached = {} => found.index = -1
            /\ reached # {} =>
                   /\ found.index + 1 \in reached
                   /\ \A i \in reached : i <= found.index + 1
            /\ (Len(found.lines) = 2 /\ found.lines[1].TimeSeconds = 15
                    /\ found.lines[2].TimeSeconds = 30) =>
                   /\ found.position = 20 => found.index = 0
                   /\ found.position = 5 => found.index = -1
                   /\ found.position = 100 => found.index = 1

\* The lines at 1.5 and 3.0 were searched at the position 3.0, the time of
\* the second line.
C31_Witness ==
    /\ found.op = "FindCurrentLineIndex"
    /\ Len(found.lines) = 2
    /\ found.lines[1].TimeSeconds = 15
    /\ found.lines[2].TimeSeconds = 30
    /\ found.position = 30
    /\ found.index = 1

---------------------------------------------------------------------------
(* Properties of the candidate loop, of the lock of the player Service and
   of the interface *)

\* C33: within one Fetch at most one request is unanswered, and only while
\* Fetch waits for the answer; a further request is sent only when the
\* request before it has been answered, and answered without lyrics or with
\* an error that is no timeout.
C33_SequentialLoop ==
    /\ [](/\ Len(requests) - lastReply.n \in {0, 1}
          /\ Len(requests) > lastReply.n => pc[1] = "fetch_wait")
    /\ [][(Len(requests) >= 1 /\ Len(requests') = Len(requests) + 1) =>
             /\ lastReply.n = Len(requests)
             /\ lastReply.reply \notin DeadlineReplies
             /\ LET res == doFetchRequest(lastReply.reply)
                IN  res.err = NoError =>
                        /\ res.payload.PlainLyrics = ""
                        /\ res.payload.SyncedLyrics = ""
                        /\ ~res.payload.Instrumental]_vars

\* The second candidate is being requested after the first one was answered
\* with a 404.
C33_Witness ==
    /\ pc[1] = "fetch_wait"
    /\ Len(requests) = 2
    /\ lastReply.n = 1
    /\ lastReply.reply = Status(404, <<>>)

\* C36: in every state of the Service the baseline of the seek detection is
\* the stored position: lastPositionSecs = PositionSecs after every Poll and
\* every signal.
C36_BaselineIsPosition == state.lastPositionSecs = state.PositionSecs

\* A property change of the player interface that carries a PlaybackStatus
\* string has been handled.
StatusPushed ==
    /\ Called("Signal")
    /\ last'.sig.Name = "PropertiesChanged"
    /\ last'.sig.iface = mprisPlayerIface
    /\ last'.sig.PlaybackStatus # Absent

\* C37: the handler of a property change of the player interface with a
\* PlaybackStatus string sets Playing to (status = "Playing") and emits one
\* PlaybackStateChanged event with that flag, whatever the Metadata entry of
\* the signal is.
C37_StatusApplied ==
    [][StatusPushed =>
          LET playing == last'.sig.PlaybackStatus.value = "Playing"
          IN  /\ state'.Playing = playing
              /\ \E i \in DOMAIN emitted' :
                     /\ emitted'[i].Type = EventPlaybackStateChanged
                     /\ emitted'[i].Playing = playing]_vars

ValidTracks(events) == \A i \in TrackChangedIn(events) : IsValid(events[i].Track)

\* C38: the stored track is nil or has a title and an artist, and every
\* TrackChanged event, emitted by the last operation or waiting in the queue,
\* carries a track with a title and an artist.
C38_StoredTrackValid ==
    /\ state.Track = Nil \/ IsValid(state.Track)
    /\ ValidTracks(emitted)
    /\ ValidTracks(eventChan)

\* A track is stored, and the last operation is a signal with a Metadata
\* entry that has no title.
C38_Witness ==
    /\ state.Track # Nil
    /\ IsValid(state.Track)
    /\ last.op = "Signal"
    /\ last.sig.Name = "PropertiesChanged"
    /\ last.sig.iface = mprisPlayerIface
    /\ last.sig.Metadata = Info("", "a", "id3")

\* ---------------------------------------------------------------------------
\* Poll and the signal handler step by step.  Poll runs in the goroutine of
\* its caller and the handlers run in signalLoop; each takes Service.mu for
\* its writes to Service.state.  A context is "idle", waits for the answer of
\* the player ("track", "position"), waits for the lock ("lock"), holds it
\* ("locked"), or is about to send its events ("emit").
\* ---------------------------------------------------------------------------
MaxRaces == 3                       \* calls of Poll and signals taken, together

RaceInfos == {Info("x", "a", "id1"), Info("y", "b", "id2"), Info("", "a", "id3")}
RaceMicros == {10000000, 25000000}
RaceSignals ==
    {PropertiesChanged(mprisPlayerIface, Info("y", "b", "id2"), Absent),
     PropertiesChanged(mprisPlayerIface, Info("x", "a", "id1"), Variant("Playing")),
     PropertiesChanged(mprisPlayerIface, Absent, Variant("Paused")),
     PropertiesChanged(mprisPlayerIface, Malformed, Variant("Playing")),
     SeekedSignal(25000000),
     SeekedSignal(-1)}

\* s.mu.Unlock()
UnlockDeferred(m) == m

Unlock(m) == "free"

\* The writes to Service.state a signal leads to, in the order of the handler:
\* each is a section under the lock, followed by an emitEvent.
Sections(sig) ==
    IF sig.Name = "Seeked"
    THEN IF sig.micros < 0 THEN <<>> ELSE <<"Seeked">>
    ELSE IF sig.Name # "PropertiesChanged" THEN <<>>
    ELSE IF sig.iface # mprisPlayerIface \/ sig.Metadata = Malformed THEN <<>>
    ELSE (IF sig.Metadata # Absent /\ IsValid(sig.Metadata) THEN <<"Metadata">> ELSE <<>>)
         \o (IF sig.PlaybackStatus # Absent THEN <<"PlaybackStatus">> ELSE <<>>)

SectionOn(section, s, sig, t) ==
    IF section = "Metadata" THEN MetadataOn(s, sig, t)
    ELSE IF section = "PlaybackStatus" THEN PlaybackOn(s, sig, t)
    ELSE handleSeeked(s, sig, t)

RaceFrame ==
    /\ UNCHANGED <<mono, stopChan, closed, stopOnce, loops, handed, last, observed,
                   stopped, polls>>
    /\ UNCHANGED <<cacheVars, fetchVars, uiVars>>

\* Poll is called: GetCurrentTrack asks the player for Metadata.
PollCall ==
    /\ ctl.poll.at = "idle"
    /\ ctl.poll.n + ctl.signal.n < MaxRaces
    /\ ctl' = [ctl EXCEPT !.poll = [at |-> "track", n |-> @.n + 1]]
    /\ UNCHANGED <<state, eventChan, emitted, mu, replaced>>
    /\ RaceFrame

\* GetCurrentTrack returns, and on success GetCurrentPosition asks for Position.
PollGotTrack ==
    /\ ctl.poll.at = "track"
    /\ \E trk \in RaceInfos, read \in {"ok", "no track"} :
           ctl' = [ctl EXCEPT !.poll =
                       IF ReadsOk(read, trk)
                       THEN [at |-> "position", n |-> @.n, trk |-> trk]
                       ELSE [at |-> "idle", n |-> @.n]]
    /\ UNCHANGED <<state, eventChan, emitted, mu, replaced>>
    /\ RaceFrame

\* GetCurrentPosition returns, and on success Poll goes on to s.mu.Lock().
PollGotPosition ==
    /\ ctl.poll.at = "position"
    /\ \E m \in RaceMicros, read \in {"ok", "no position"} :
           ctl' = [ctl EXCEPT !.poll =
                       IF read = "ok"
                       THEN [at |-> "lock", n |-> @.n, trk |-> @.trk, pos |-> Seconds(m)]
                       ELSE [at |-> "idle", n |-> @.n]]
    /\ UNCHANGED <<state, eventChan, emitted, mu, replaced>>
    /\ RaceFrame

\* s.mu.Lock() and the writes of Poll under the lock.
PollLock ==
    /\ ctl.poll.at = "lock"
    /\ mu = "free"
    /\ mu' = "poll"
    /\ LET r == PollOn(state, ctl.poll.trk, ctl.poll.pos, mono)
       IN  /\ state' = r.state
           /\ replaced' = IF ~IsSameTrack(ctl.poll.trk, state.Track)
                          THEN Append(replaced, ctl.poll.trk)
                          ELSE replaced
           /\ ctl' = [ctl EXCEPT !.poll = [at |-> "locked", n |-> @.n, events |-> r.events]]
    /\ UNCHANGED <<eventChan, emitted>>
    /\ RaceFrame

\* s.mu.Unlock() on either branch of Poll.
PollUnlock ==
    /\ ctl.poll.at = "locked"
    /\ mu' = Unlock(mu)
    /\ ctl' = [ctl EXCEPT !.poll = IF @.events = <<>> THEN [at |-> "idle", n |-> @.n]
                                   ELSE [@ EXCEPT !.at = "emit"]]
    /\ UNCHANGED <<state, eventChan, emitted, replaced>>
    /\ RaceFrame

\* s.emitEvent(...) of Poll, and Poll returns.
PollEmit ==
    /\ ctl.poll.at = "emit"
    /\ eventChan' = emitAll(eventChan, ctl.poll.events)
    /\ emitted' = ctl.poll.events
    /\ ctl' = [ctl EXCEPT !.poll = [at |-> "idle", n |-> @.n]]
    /\ UNCHANGED <<state, mu, replaced>>
    /\ RaceFrame

\* signalLoop takes a signal and the handler runs up to its first s.mu.Lock(),
\* or returns.
SignalTake ==
    /\ ctl.signal.at = "idle"
    /\ ctl.poll.n + ctl.signal.n < MaxRaces
    /\ \E l \in DOMAIN loops : loops[l].alive
    /\ \E sig \in RaceSignals :
           ctl' = [ctl EXCEPT !.signal =
                       IF Sections(sig) = <<>> THEN [at |-> "idle", n |-> @.n + 1]
                       ELSE [at |-> "lock", n |-> @.n + 1, sig |-> sig,
                             todo |-> Sections(sig)]]
    /\ UNCHANGED <<state, eventChan, emitted, mu, replaced>>
    /\ RaceFrame

\* s.mu.Lock() and the writes of the handler under the lock.
SignalLock ==
    /\ ctl.signal.at = "lock"
    /\ mu = "free"
    /\ mu' = "signal"
    /\ LET c == ctl.signal
           r == SectionOn(Head(c.todo), state, c.sig, mono)
       IN  /\ state' = r.state
           /\ replaced' = IF Head(c.todo) = "Metadata"
                          THEN Append(replaced, c.sig.Metadata)
                          ELSE replaced
           /\ ctl' = [ctl EXCEPT !.signal =
                          [at |-> "locked", n |-> c.n, sig |-> c.sig, todo |-> c.todo,
                           events |-> r.events]]
    /\ UNCHANGED <<eventChan, emitted>>
    /\ RaceFrame

\* s.mu.Unlock() of the handler.
SignalUnlock ==
    /\ ctl.signal.at = "locked"
    /\ mu' = Unlock(mu)
    /\ ctl' = [ctl EXCEPT !.signal.at = "emit"]
    /\ UNCHANGED <<state, eventChan, emitted, replaced>>
    /\ RaceFrame

\* s.emitEvent(...) of the handler; it goes on to its next section or returns.
SignalEmit ==
    /\ ctl.signal.at = "emit"
    /\ eventChan' = emitAll(eventChan, ctl.signal.events)
    /\ emitted' = ctl.signal.events
    /\ ctl' = [ctl EXCEPT !.signal =
                   IF Tail(@.todo) = <<>> THEN [at |-> "idle", n |-> @.n]
                   ELSE [at |-> "lock", n |-> @.n, sig |-> @.sig, todo |-> Tail(@.todo)]]
    /\ UNCHANGED <<state, mu, replaced>>
    /\ RaceFrame

NextRace ==
    \/ stopChan = 0 /\ Start
    \/ PollCall
    \/ PollGotTrack
    \/ PollGotPosition
    \/ PollLock
    \/ PollUnlock
    \/ PollEmit
    \/ SignalTake
    \/ SignalLock
    \/ SignalUnlock
    \/ SignalEmit

SpecRace == InitService /\ [][NextRace]_vars

\* C32: Service.mu is held by a context exactly while that context is in its
\* writes to Service.state: not while Poll waits for the player, not while
\* either context emits an event; and the next step of the holder releases
\* it, so a context that waits for the lock waits for one section of writes.
C32_LockDiscipline ==
    /\ [](/\ mu = "poll" <=> ctl.poll.at = "locked"
          /\ mu = "signal" <=> ctl.signal.at = "locked"
          /\ ctl.poll.at \in {"track", "position", "emit"} => mu # "poll"
          /\ ctl.signal.at = "emit" => mu # "signal")
    /\ [][(mu = "poll" /\ ctl'.poll # ctl.poll) => mu' = "free"]_vars
    /\ [][(mu = "signal" /\ ctl'.signal # ctl.signal) => mu' = "free"]_vars

\* Poll is about to emit its event while the handler holds the lock, having
\* waited for it while Poll held it.
C32_Witness ==
    /\ ctl.poll.at = "emit"
    /\ ctl.signal.at = "locked"
    /\ mu = "signal"

TracksOf(events) ==
    LET changed == SelectSeq(events, LAMBDA e : e.Type = EventTrackChanged)
    IN  [i \in DOMAIN changed |-> changed[i].Track]

\* C34: when Poll and the handler have returned and no event was dropped, the
\* tracks of the TrackChanged events in the queue are, in their order, the
\* tracks stored in Service.state, and the last of them is the stored track.
C34_QueueOrder ==
    (/\ ctl.poll.at = "idle"
     /\ ctl.signal.at = "idle"
     /\ Len(eventChan) < eventChanCap)
    => /\ TracksOf(eventChan) = replaced
       /\ replaced # <<>> => replaced[Len(replaced)] = state.Track

\* ---------------------------------------------------------------------------
\* A reader of one key beside a goroutine that sets, deletes and clears.
\* ---------------------------------------------------------------------------
ReaderKey == generateKey(<<"a">>, <<"x">>)

\* goroutine 1 calls Get on the key, goroutine 2 calls Set and Delete on it
\* and Clear; the process ends and starts again between operations
NextRevive ==
    \/ GetFrom(1, {<<"a">>}, {<<"x">>})
    \/ GetDisk(1) \/ GetExpiry(1) \/ GetPromote(1)
    \/ SetFrom(2, {<<"a">>}, {<<"x">>}, DiskEntries)
    \/ SetCreate(2) \/ SetEncode(2) \/ SetSync(2) \/ SetClose(2) \/ SetRename(2)
    \/ DeleteFrom(2, {<<"a">>}, {<<"x">>})
    \/ ClearCall(2)
    \/ Restart

SpecRevive == InitService /\ [][NextRevive]_vars

\* C35: when Delete of the key, or Clear, was the last operation of the one
\* goroutine that writes, it has returned without error, and no Get is
\* running, the key is not in memCache.
C35_NoResurrection ==
    (/\ \A p \in Procs : pc[p] = "idle"
     /\ ret[2][2].op \in {"Delete", "Clear"}
     /\ ret[2][2].err = "nil")
    => ReaderKey \notin DOMAIN memCache

\* ---------------------------------------------------------------------------
\* The interface and its lyric lines.  The lyrics command of a track change
\* runs beside the interface and its LyricsFetchedMsg arrives at any later
\* time; the cache holds no entry, so saveSyncOffset finds none to update.
\* Positions are whole seconds, line times and offsets tenths of a second.
\* ---------------------------------------------------------------------------
MaxCmds == 2                        \* lyrics commands that are out at a time

UIPositions == {1, 3}
UILines ==
    {<<>>,
     <<TimedLine(15, "la"), TimedLine(30, "la")>>,
     <<TimedLine(30, "la"), TimedLine(15, "la")>>}

\* "left", "h": -0.5; "right", "l": +0.5
OffsetKeys == {-5, 5}

\* what fetchLyricsCmd returns: an error, or the lines ParseSynced made of the
\* synced lyrics with the sync offset of the entry
LyricsFetchedMsgs ==
    {[Err |-> TRUE, Lines |-> <<>>, SyncOffset |-> 0]}
    \cup {[Err |-> FALSE, Lines |-> l, SyncOffset |-> o] : l \in UILines, o \in {0, 3}}

resetForNewTrack(d) ==
    [d EXCEPT !.Lines = <<>>, !.CurrentIndex = -1, !.PrevIndex = -1, !.from = NoTrack]

asFound(i) == i

\* if idx < 0 && len(m.display.Lines) > 0 { idx = 0 }
atLeastFirst(i) == IF i < 0 THEN 0 ELSE i

\* float64(positionSecs) + m.syncOffset
adjustedPos(offset, pos) == pos * 10 + offset

updateLyricIndex(d, offset, pos) ==
    IF Len(d.Lines) = 0 THEN d
    ELSE LET i == atLeastFirst(FindCurrentLineIndex(d.Lines, adjustedPos(offset, pos)))
         IN  IF i # d.CurrentIndex
             THEN [d EXCEPT !.PrevIndex = d.CurrentIndex, !.CurrentIndex = i]
             ELSE d

\* the call of FindCurrentLineIndex that updateLyricIndex makes
FoundBy(d, offset, pos) ==
    IF Len(d.Lines) = 0 THEN found
    ELSE [op |-> "FindCurrentLineIndex", lines |-> d.Lines,
          position |-> adjustedPos(offset, pos),
          index |-> FindCurrentLineIndex(d.Lines, adjustedPos(offset, pos))]

LinesFrame == UNCHANGED <<cacheVars, fetchVars, playerVars, lockVars>>

\* handlePlayerEvent: a TrackChanged event goes to handleTrackChange, which
\* shows the track, drops the lines and, for a valid track, sends
\* fetchLyricsCmd; a Seeked event sets the position and the line index.
handlePlayerEvent ==
    /\ \/ \E t \in UITracks \cup {NoTrack} :
             /\ t # NoTrack => Cardinality(cmds) < MaxCmds
             /\ model' = [model EXCEPT !.Track = t, !.Lines = FALSE,
                                       !.loadingLyrics = t # NoTrack \/ @,
                                       !.handled = Handled("TrackChanged")]
             /\ display' = resetForNewTrack(display)
             /\ cmds' = IF t = NoTrack THEN cmds
                        ELSE cmds \cup {[trk |-> t,
                                         id |-> CHOOSE n \in 1..MaxCmds :
                                                    \A c \in cmds : c.id # n]}
             /\ found' = NoEvent
       \/ \E pos \in UIPositions :
             /\ model' = [model EXCEPT !.handled = Handled("Seeked")]
             /\ display' = updateLyricIndex([display EXCEPT !.positionSecs = pos],
                                            model.syncOffset, pos)
             /\ found' = FoundBy(display, model.syncOffset, pos)
             /\ UNCHANGED cmds
    /\ LinesFrame

\* handleLyricsFetched on the display
lyricsFetched(d, msg) ==
    IF msg.Err \/ Len(msg.Lines) = 0
    THEN [d EXCEPT !.Lines = <<>>, !.CurrentIndex = -1]
    ELSE [d EXCEPT !.Lines = msg.Lines, !.CurrentIndex = 0]

\* A lyrics command returns its LyricsFetchedMsg and Update passes it to
\* handleLyricsFetched.
fetchLyricsCmd ==
    /\ \E c \in cmds, msg \in LyricsFetchedMsgs :
          LET loaded == ~msg.Err /\ Len(msg.Lines) # 0 IN
          /\ cmds' = cmds \ {c}
          /\ display' = [lyricsFetched(display, msg) EXCEPT !.from = c.trk]
          /\ model' = [model EXCEPT
                          !.loadingLyrics = FALSE,
                          !.Lines = loaded,
                          !.syncOffset = IF loaded /\ restores(msg.SyncOffset)
                                         THEN msg.SyncOffset ELSE @,
                          !.handled = [msg |-> "LyricsFetched", loaded |-> loaded]]
    /\ found' = NoEvent
    /\ LinesFrame

\* handleTick: Poll and GetCurrentPosition, either may fail; then the position
\* and the line index are set.
handleTick ==
    /\ \E ok \in BOOLEAN, pos \in UIPositions :
          /\ display' = IF ok
                        THEN updateLyricIndex([display EXCEPT !.positionSecs = pos],
                                              model.syncOffset, pos)
                        ELSE display
          /\ found' = IF ok THEN FoundBy(display, model.syncOffset, pos) ELSE found
    /\ model' = [model EXCEPT !.handled = Handled("Tick")]
    /\ UNCHANGED cmds
    /\ LinesFrame

\* handleKeyPress for the keys of the sync offset: the offset changes,
\* updateLyricIndexFromPosition reads the position, which may fail, and sets
\* the line index; saveSyncOffset finds no entry.
handleOffsetKey ==
    /\ \E o \in {model.syncOffset + d : d \in OffsetKeys} \cup {0},
          ok \in BOOLEAN, pos \in UIPositions :
          /\ o \in (-MaxOffset)..MaxOffset
          /\ model' = [model EXCEPT !.syncOffset = o, !.handled = Handled("Key")]
          /\ display' = IF ok THEN updateLyricIndex(display, o, pos) ELSE display
          /\ found' = IF ok THEN FoundBy(display, o, pos) ELSE found
    /\ UNCHANGED cmds
    /\ LinesFrame

NextLines ==
    \/ handlePlayerEvent
    \/ fetchLyricsCmd
    \/ handleTick
    \/ handleOffsetKey

SpecLines == InitService /\ [][NextLines]_vars

\* C39: what the display shows of a lyrics command, lines or none after an
\* error, comes from the command sent for the displayed track.
C39_LinesOfDisplayedTrack ==
    display.from # NoTrack => display.from = model.Track

\* C40: display.CurrentIndex is -1 exactly when display.Lines is empty and
\* else an index of display.Lines; with lines in chronological order, after
\* updateLyricIndex on a position before the first time it is 0, and on a
\* position at or past the last time it is the index of the last line.
C40_IndexInRange ==
    LET n == Len(display.Lines) IN
    /\ display.CurrentIndex = -1 <=> n = 0
    /\ n > 0 => display.CurrentIndex \in 0..(n - 1)
    /\ (found.op = "FindCurrentLineIndex" /\ Chronological(display.Lines)) =>
           /\ found.lines = display.Lines
           /\ found.position < display.Lines[1].TimeSeconds => display.CurrentIndex = 0
           /\ found.position >= display.Lines[n].TimeSeconds => display.CurrentIndex = n - 1

\* Two lines are shown; after an offset key the position is before the
\* first time and the first line is current, having been the last before.
C40_Witness ==
    /\ Len(display.Lines) = 2
    /\ model.handled = Handled("Key")
    /\ found.op = "FindCurrentLineIndex"
    /\ found.index = -1
    /\ display.CurrentIndex = 0
    /\ display.PrevIndex = 1

====
